---------------------------- MODULE Spec2Model ----------------------------
(***************************************************************************)
(* State-machine model of the startup clustering pipeline                  *)
(* (src/indian_startups_analysis/src/clustering_model.py).                 *)
(*                                                                         *)
(* One StartupClustering object is modelled: its fields are the variables, *)
(* each public method is one action.  Python's None is the empty sequence  *)
(* <<>> and a present value x is <<x>>.  Amounts are whole units, means    *)
(* and ratios are kept exact as [num, den] pairs, and every comparison of  *)
(* real numbers is done by cross-multiplication in the integers.           *)
(***************************************************************************)
EXTENDS Integers, Sequences, FiniteSets, TLC

VARIABLES
    df,            \* self.df: the funding records, in input order
    cluster_data,  \* self.cluster_data: None or the per-startup feature table
    optimal_k,     \* self.optimal_k: None or the K picked by the elbow scan
    scaler,        \* self.scaler: None (unfitted) or the matrix it was last fitted on
    kmeans,        \* self.kmeans: None or the last KMeans object built by train_kmeans
    inertiaOf,     \* KMeans(k, random_state=42).fit(X).inertia_ as revealed so far
    labelsOf,      \* KMeans(k, random_state=42).fit_predict(X) as revealed so far
    fitLog,        \* the n_clusters of every KMeans the last call tried to fit, in order
    ret,           \* outcome of the last method call
    files,         \* the output files on disk: None (absent) or what was written
    engine,        \* None, or one call of the clustering engine and its outcome
    loader,        \* None, or the DataLoader object: its data and last call
    main           \* None, or the run of main(): its files, position and log

vars == <<df, cluster_data, optimal_k, scaler, kmeans, inertiaOf, labelsOf, fitLog, ret,
          files, engine, loader, main>>

(***************************************************************************)
(* Bounds of the model.                                                    *)
(***************************************************************************)
MaxRecords == 3     \* longest record sequence of the feature-building runs
MaxEntities == 6    \* most startups of the K-selection runs
MaxSmall == 3       \* most startups of the runs that train and label
MaxTrainK == 2      \* largest cluster count those runs train with successfully
MaxInertia == 4     \* largest (positive) inertia value the library reports
MaxCoord == 2       \* largest coordinate of a row handed to the clustering engine
MaxRestarts == 2    \* most restarts of one call of the clustering engine
MaxIterations == 2  \* the engine's maximum iteration bound for one restart

None == <<>>
Some(x) == <<x>>
IsNone(o) == o = <<>>
Get(o) == o[1]

(***************************************************************************)
(* Input domains.                                                          *)
(***************************************************************************)
NameOrder == <<"Acme", "Byju", "Cred", "Dunzo", "Eruditus", "Flipkart", "Groww",
               "Hike", "Inmobi", "Juspay", "Khatabook", "Lenskart">>
NamesUpTo(n) == {NameOrder[i] : i \in 1..n}
Rank(name) == CHOOSE i \in 1..Len(NameOrder) : NameOrder[i] = name

Amounts == {1, 3}

\* the two non-finite floats an amount can be (float("NAN") and float("INF")
\* of _clean_amount, or a numeric column that holds them), encoded outside
\* the range of the finite amounts; Inf is above every finite value
NaN == -1
Inf == 1000000
Years == {2019, 2021}
Sectors == {<<"Fintech", "Pune">>, <<"Edtech", "Delhi">>}

Record(name, amount, year, sector) ==
    [startup_name |-> name, funding_amount_usd |-> amount, year |-> year,
     industry |-> sector[1], city |-> sector[2]]

RecordVals(names) ==
    {Record(n, a, y, s) : n \in names, a \in Amounts, y \in Years, s \in Sectors}

SeqsUpTo(S, n) == UNION {[1..m -> S] : m \in 0..n}

(***************************************************************************)
(* prepare_features: groupby('startup_name').agg(...) and derived columns. *)
(***************************************************************************)
\* faulty variant: every distinct amount of the group is counted once
SumDistinctAmounts(g) ==
    LET amounts == {g[i].funding_amount_usd : i \in DOMAIN g}
        pick(a) == CHOOSE i \in DOMAIN g : g[i].funding_amount_usd = a
    IN  IF g = <<>> THEN 0
        ELSE LET one == [i \in DOMAIN g |->
                            IF pick(g[i].funding_amount_usd) = i
                            THEN g[i].funding_amount_usd ELSE 0]
                 F[i \in 0..Len(g)] == IF i = 0 THEN 0 ELSE one[i] + F[i - 1]
             IN  F[Len(g)]

\* 'funding_amount_usd': 'sum' over the rows of one group: missing amounts
\* are skipped, and one infinite amount makes the sum infinite
RECURSIVE SumAmounts(_)
SumAmounts(g) ==
    IF g = <<>> THEN 0
    ELSE LET amount == Head(g).funding_amount_usd
             rest   == SumAmounts(Tail(g))
         IN  IF amount = NaN THEN rest
             ELSE IF amount = Inf \/ rest = Inf THEN Inf
             ELSE amount + rest

\* 'funding_amount_usd': 'count': the number of amounts that are not missing
CountAmounts(g) == Len(SelectSeq(g, LAMBDA r : r.funding_amount_usd # NaN))

Max(S) == CHOOSE x \in S : \A y \in S : y <= x
Min(S) == CHOOSE x \in S : \A y \in S : x <= y

\* the keys of the groupby: the distinct startup names present in the frame
GroupKeys(frame) == {frame[i].startup_name : i \in DOMAIN frame}

\* the rows of one group, in the frame's original order
GroupRows(frame, name) == SelectSeq(frame, LAMBDA r : r.startup_name = name)

\* groupby sorts its keys: the result rows are in ascending name order
RECURSIVE SortedKeys(_)
SortedKeys(keys) ==
    IF keys = {} THEN <<>>
    ELSE LET first == CHOOSE k \in keys : \A o \in keys : Rank(k) <= Rank(o)
         IN  <<first>> \o SortedKeys(keys \ {first})

\* faulty variant: the difference of the years without the "+ 1"
YearSpan(year_min, year_max) == year_max - year_min

\* line 61: years_active = year_max - year_min + 1
YearsActive(year_min, year_max) == year_max - year_min + 1

\* faulty variant: the value of the group's last row
LastOf(g, column) == g[Len(g)][column]

\* the 'first' aggregation: the value of the group's first row, the rows of
\* a group keeping the frame's order (no value of the frame is missing)
FirstOf(g, column) == g[1][column]

FeatureRow(frame, name) ==
    LET g     == GroupRows(frame, name)
        sum   == SumAmounts(g)
        count == CountAmounts(g)
        ymin  == Min({g[i].year : i \in DOMAIN g})
        ymax  == Max({g[i].year : i \in DOMAIN g})
        ya    == YearsActive(ymin, ymax)
    IN  [startup_name          |-> name,
         year_min              |-> ymin,
         year_max              |-> ymax,
         industry_first        |-> FirstOf(g, "industry"),
         city_first            |-> FirstOf(g, "city"),
         total_funding         |-> sum,
         avg_funding_per_round |-> [num |-> sum, den |-> count],
         num_funding_rounds    |-> count,
         years_active          |-> ya,
         funding_per_year      |-> [num |-> sum, den |-> ya]]

\* faulty variant: no grouping, one row per record
AggregatePerRecord(frame) ==
    [i \in 1..Len(frame) |-> FeatureRow(frame, frame[i].startup_name)]

Aggregate(frame) ==
    LET keys == SortedKeys(GroupKeys(frame))
    IN  [i \in 1..Len(keys) |-> FeatureRow(frame, keys[i])]

\* a feature table: the rows plus the optional 'cluster' and 'cluster_name' columns
Table(rows, cluster, names) ==
    [rows |-> rows, cluster |-> cluster, cluster_name |-> names]

NoCall == [op |-> "none", arg |-> None, status |-> "ok", exc |-> "", value |-> None]
Ok(op, arg, value) ==
    [op |-> op, arg |-> arg, status |-> "ok", exc |-> "", value |-> value]
Raised(op, arg, exc) ==
    [op |-> op, arg |-> arg, status |-> "error", exc |-> exc, value |-> None]

prepare_features ==
    /\ cluster_data' = Some(Table(Aggregate(df), None, None))
    /\ ret' = Ok("prepare_features", None, Some(Len(Aggregate(df))))
    /\ fitLog' = <<>>
    /\ UNCHANGED <<df, engine, loader, main, labelsOf, files, optimal_k, scaler, kmeans, inertiaOf>>

(***************************************************************************)
(* The scaled feature matrix.  X = cluster_data[feature_cols].fillna(0):   *)
(* the five feature columns are functions of (total_funding,               *)
(* num_funding_rounds, years_active), which stand for the row; the two     *)
(* log10 columns are monotone in total and average funding and are not     *)
(* computed.  The fourth cell holds what log_avg_funding adds to the first *)
(* three: it is missing when the startup has no amount (the mean of no     *)
(* value), infinite when the total is, and else 0.                         *)
(***************************************************************************)
LogAvgFunding(row) ==
    IF row.avg_funding_per_round.den = 0 THEN NaN
    ELSE IF row.avg_funding_per_round.num = Inf THEN Inf
    ELSE 0

\* cluster_data[feature_cols]
FeatureColumns(table) ==
    [i \in 1..Len(table.rows) |->
        <<table.rows[i].total_funding, table.rows[i].num_funding_rounds,
          table.rows[i].years_active, LogAvgFunding(table.rows[i])>>]

\* faulty variant: no value is replaced
KeepNa(x) == x

\* fillna(0) replaces the missing values, and only those
FillNa(x) == IF x = NaN THEN 0 ELSE x

FeatureMatrix(table) ==
    LET columns == FeatureColumns(table)
    IN  [i \in DOMAIN columns |-> [j \in DOMAIN columns[i] |-> FillNa(columns[i][j])]]

\* the scaler validates its input and raises ValueError("Input X contains
\* infinity ...") when a cell is not finite
IsFinite(x) == x # NaN /\ x # Inf
AllFinite(X) == \A i \in DOMAIN X : \A j \in DOMAIN X[i] : IsFinite(X[i][j])

(***************************************************************************)
(* StandardScaler.fit_transform (line 96), in exact arithmetic.  For the   *)
(* column j of n rows with sum S: mean_ = S / n, so n * (x - mean_) is the *)
(* integer Deviation, and var_ = sum((x - mean_)^2) / n is the sum of the  *)
(* squared deviations over n^3.  scale_ is sqrt(var_) with a zero replaced *)
(* by 1, and a cell becomes (x - mean_) / scale_: it is held as its sign   *)
(* and the fraction num / den of its square, den = 0 being a division by   *)
(* zero.                                                                   *)
(***************************************************************************)
RECURSIVE ColumnSum(_, _, _)
ColumnSum(X, j, i) == IF i > Len(X) THEN 0 ELSE X[i][j] + ColumnSum(X, j, i + 1)

Deviation(X, i, j) == Len(X) * X[i][j] - ColumnSum(X, j, 1)

RECURSIVE SquaredDeviations(_, _, _)
SquaredDeviations(X, j, i) ==
    IF i > Len(X) THEN 0
    ELSE Deviation(X, i, j) * Deviation(X, i, j) + SquaredDeviations(X, j, i + 1)

Variance(X, j) ==
    [num |-> SquaredDeviations(X, j, 1), den |-> Len(X) * Len(X) * Len(X)]

\* faulty variant: the variance as it is, zero included
RawScale2(variance) == variance

\* scale_ squared: the variance, and 1 for a column that does not vary
Scale2(variance) ==
    IF variance.num = 0 THEN [num |-> 1, den |-> 1] ELSE variance

Sign(x) == IF x > 0 THEN 1 ELSE IF x < 0 THEN -1 ELSE 0

Standardized(X, i, j) ==
    LET deviation == Deviation(X, i, j)
        scale2    == Scale2(Variance(X, j))
    IN  [sign |-> Sign(deviation),
         num  |-> deviation * deviation * scale2.den,
         den  |-> Len(X) * Len(X) * scale2.num]

\* faulty variant: the parameters are fitted on the first row only
FitOnFirstRow(X) == Some(SubSeq(X, 1, 1))

\* the fitted scaler (mean_ and scale_ of lines 96 and 166) is held as the
\* matrix it was fitted on
Fit(X) == Some(X)

FitTransform(X) ==
    [i \in DOMAIN X |-> [j \in DOMAIN X[i] |-> Standardized(X, i, j)]]

DistinctRows(X) == Cardinality({X[i] : i \in DOMAIN X})

(***************************************************************************)
(* sklearn's KMeans(n_clusters=k, random_state=42, n_init=10).fit(X).      *)
(* fit raises ValueError unless 1 <= k <= number of rows.  With the seed   *)
(* fixed, inertia_ is a function of (X, k); the library computes it in     *)
(* floating point from data the model does not hold, so the function is    *)
(* revealed value by value (inertiaOf) and never changes once revealed:    *)
(* it is 0 exactly when k reaches the number of distinct rows, positive   *)
(* otherwise, and does not increase with k.                                *)
(***************************************************************************)
KMin == 2
DefaultK == 4

\* faulty variant: fit accepts any positive cluster count
FitFailsOnlyBelowOne(k, n) == k < 1

\* fit raises ValueError unless 1 <= n_clusters <= n_samples
FitFails(k, n) == k < 1 \/ k > n

\* the last K one find_optimal_k call fits without error: range(2, max_k + 1)
\* cut at the first k that exceeds the number of rows
LastFittedK(max_k, n) == IF max_k <= n THEN max_k ELSE n

\* faulty variant: range(2, max_k), which leaves max_k out
RECURSIVE TriedKsExclusive(_, _, _)
TriedKsExclusive(k, max_k, n) ==
    IF k >= max_k THEN <<>>
    ELSE IF FitFails(k, n) THEN <<k>>
    ELSE <<k>> \o TriedKsExclusive(k + 1, max_k, n)

\* the K values handed to KMeans.fit, in order, including one that raises
RECURSIVE TriedKs(_, _, _)
TriedKs(k, max_k, n) ==
    IF k > max_k THEN <<>>
    ELSE IF FitFails(k, n) THEN <<k>>
    ELSE <<k>> \o TriedKs(k + 1, max_k, n)

InertiaAllowed(k, v, X) == (v = 0) <=> (k >= DistinctRows(X))

\* what the library has reported so far, extended by the curve c
Reveal(c) ==
    [k \in DOMAIN inertiaOf \cup DOMAIN c |->
        IF k \in DOMAIN c THEN c[k] ELSE inertiaOf[k]]

\* the values the library may report for k: what it reported before if it did,
\* and never more than cap, its value for k - 1 (more clusters never fit worse)
InertiaValues(k, cap, X) ==
    {v \in 0..cap : /\ InertiaAllowed(k, v, X)
                    /\ k \in DOMAIN inertiaOf => v = inertiaOf[k]}

RECURSIVE CurveTails(_, _, _, _)
CurveTails(k, last, cap, X) ==
    IF k > last THEN {<<>>}
    ELSE UNION {{<<v>> \o t : t \in CurveTails(k + 1, last, v, X)} :
                    v \in InertiaValues(k, cap, X)}

\* the inertia curves the library may report for K = 2..last
Curves(last, X) ==
    {[k \in KMin..last |-> t[k - KMin + 1]] :
        t \in CurveTails(KMin, last, MaxInertia, X)}

(***************************************************************************)
(* The elbow scan of find_optimal_k (lines 116-130).  inertias and rates   *)
(* are 0-based lists as in the code: inertias[j] belongs to K = j + 2.     *)
(***************************************************************************)
InertiaList(c, max_k) == [j \in 0..(max_k - KMin) |-> c[j + KMin]]

\* number of entries of a 0-based list
Size(list) == Cardinality(DOMAIN list)

\* rates has one entry per i in range(1, len(inertias))
RateCount(inertias) == IF Size(inertias) = 0 THEN 0 ELSE Size(inertias) - 1

\* some rates[j] divides by inertias[j] = 0
DividesByZero(inertias) == \E j \in 0..(RateCount(inertias) - 1) : inertias[j] = 0

RECURSIVE Product(_, _)
Product(inertias, j) == IF j < 0 THEN 1 ELSE inertias[j] * Product(inertias, j - 1)

\* rates[j] = (inertias[j] - inertias[j+1]) / inertias[j] * 100, multiplied by
\* the product of all divisors so that it is an integer
ScaledRate(inertias, j) ==
    LET P == Product(inertias, RateCount(inertias) - 1)
    IN  ((inertias[j] - inertias[j + 1]) * 100 * P) \div inertias[j]

RECURSIVE SumRates(_, _)
SumRates(inertias, j) ==
    IF j < 0 THEN 0 ELSE ScaledRate(inertias, j) + SumRates(inertias, j - 1)

\* rate < threshold, with threshold = np.mean(rates) * 0.5
BelowThreshold(inertias, j) ==
    2 * RateCount(inertias) * ScaledRate(inertias, j)
        < SumRates(inertias, RateCount(inertias) - 1)

\* the indexes the scan accepts: "if i > 0 and rate < threshold"
ScanHits(inertias) ==
    {i \in 0..(RateCount(inertias) - 1) : i > 0 /\ BelowThreshold(inertias, i)}

\* faulty variant: the offset kMin + i + 1
ElbowKPlusOne(i) == i + 3

\* "self.optimal_k = i + 2" at the first accepted index
ElbowK(i) == i + 2

\* lines 124-130: the scan overwrites optimal_k only at a hit, and the default
\* is taken only when optimal_k is still None
ScanResult(old, hits) ==
    LET scanned == IF hits = {} THEN old ELSE Some(ElbowK(Min(hits)))
    IN  IF IsNone(scanned) THEN Some(DefaultK) ELSE scanned

MaxKArgs == 0..(MaxEntities + 1)

find_optimal_k(max_k) ==
    LET arg == Some(max_k) IN
    IF IsNone(cluster_data) THEN
        \* line 93: None[feature_cols]
        /\ ret' = Raised("find_optimal_k", arg, "TypeError")
        /\ fitLog' = <<>>
        /\ UNCHANGED <<df, engine, loader, main, labelsOf, files, cluster_data, optimal_k, scaler, kmeans, inertiaOf>>
    ELSE
      LET X == FeatureMatrix(Get(cluster_data))
          n == Len(X)
      IN
      IF n = 0 \/ ~AllFinite(X) THEN
        \* line 96: StandardScaler.fit resets itself, then rejects 0 samples
        \* and cells that are not finite
        /\ scaler' = None
        /\ ret' = Raised("find_optimal_k", arg, "ValueError")
        /\ fitLog' = <<>>
        /\ UNCHANGED <<df, engine, loader, main, labelsOf, files, cluster_data, optimal_k, kmeans, inertiaOf>>
      ELSE
        \E c \in Curves(LastFittedK(max_k, n), X) :
          /\ scaler' = Fit(X)
          /\ inertiaOf' = Reveal(c)
          /\ fitLog' = TriedKs(KMin, max_k, n)
          /\ UNCHANGED <<df, engine, loader, main, labelsOf, files, cluster_data, kmeans>>
          /\ IF max_k >= KMin /\ max_k > n THEN
                \* line 104: KMeans.fit with more clusters than rows
                /\ ret' = Raised("find_optimal_k", arg, "ValueError")
                /\ UNCHANGED optimal_k
             ELSE
               LET inertias == InertiaList(c, max_k) IN
               IF DividesByZero(inertias) THEN
                 \* line 119: 0.0 / 0.0 raises for Python floats and is NaN
                 \* for numpy floats; with NaN no rate is below the threshold
                 \E numpyFloat \in BOOLEAN :
                   IF numpyFloat THEN
                     /\ optimal_k' = ScanResult(optimal_k, {})
                     /\ ret' = Ok("find_optimal_k", arg, optimal_k')
                   ELSE
                     /\ ret' = Raised("find_optimal_k", arg, "ZeroDivisionError")
                     /\ UNCHANGED optimal_k
               ELSE
                 /\ optimal_k' = ScanResult(optimal_k, ScanHits(inertias))
                 /\ ret' = Ok("find_optimal_k", arg, optimal_k')

(***************************************************************************)
(* train_kmeans (lines 143-178).  fit_predict gives every row one label in *)
(* 0..k-1; a row's label is that of its nearest centre, so equal rows get  *)
(* equal labels.  Which rows share a centre is the library's floating-point *)
(* result and is left open.                                                *)
(***************************************************************************)
\* faulty variant: labels counted from 1
ClusterIdsFromOne(k) == 1..k

ClusterIds(k) == 0..(k - 1)

\* every way to give each distinct row one label
Labelings(X, k) ==
    {[i \in 1..Len(X) |-> byRow[X[i]]] :
        byRow \in [{X[i] : i \in DOMAIN X} -> ClusterIds(k)]}

\* faulty variant: KMeans without random_state draws a new seed for every fit
Unseeded == None

\* "random_state=42" (lines 103 and 169)
RandomState == Some(42)

\* what fit_predict may return for the rows X and k clusters: with a seed it
\* is a function of (X, k), so a result the library gave before is given
\* again (X is computed from self.df, which no method changes)
FitPredict(X, k) ==
    IF ~IsNone(RandomState) /\ k \in DOMAIN labelsOf
    THEN {labelsOf[k]}
    ELSE Labelings(X, k)

\* faulty variant: the stored K is ignored
ChosenKIgnoringStored(n_clusters) ==
    IF IsNone(n_clusters) THEN DefaultK ELSE Get(n_clusters)

\* "n_clusters = self.optimal_k if self.optimal_k else 4"
ChosenK(n_clusters) ==
    IF IsNone(n_clusters)
    THEN (IF IsNone(optimal_k) THEN DefaultK ELSE Get(optimal_k))
    ELSE Get(n_clusters)

train_kmeans(n_clusters) ==
    LET k == ChosenK(n_clusters) IN
    IF IsNone(cluster_data) THEN
        \* line 163: None[feature_cols]
        /\ ret' = Raised("train_kmeans", n_clusters, "TypeError")
        /\ fitLog' = <<>>
        /\ UNCHANGED <<df, engine, loader, main, labelsOf, files, cluster_data, optimal_k, scaler, kmeans, inertiaOf>>
    ELSE
      LET table == Get(cluster_data)
          X     == FeatureMatrix(table)
          n     == Len(X)
      IN
      IF n = 0 \/ ~AllFinite(X) THEN
        \* line 166: StandardScaler.fit resets itself, then rejects 0 samples
        \* and cells that are not finite
        /\ scaler' = None
        /\ ret' = Raised("train_kmeans", n_clusters, "ValueError")
        /\ fitLog' = <<>>
        /\ UNCHANGED <<df, engine, loader, main, labelsOf, files, cluster_data, optimal_k, kmeans, inertiaOf>>
      ELSE IF FitFails(k, n) THEN
        \* line 170: fit_predict raises, self.kmeans is already the new object
        /\ scaler' = Fit(X)
        /\ kmeans' = Some([n_clusters |-> k, fitted |-> FALSE])
        /\ ret' = Raised("train_kmeans", n_clusters, "ValueError")
        /\ fitLog' = <<k>>
        /\ UNCHANGED <<df, engine, loader, main, labelsOf, files, cluster_data, optimal_k, inertiaOf>>
      ELSE
        \E labels \in FitPredict(X, k) :
          /\ scaler' = Fit(X)
          /\ kmeans' = Some([n_clusters |-> k, fitted |-> TRUE])
          /\ cluster_data' = Some(Table(table.rows, labels, table.cluster_name))
          /\ labelsOf' = [j \in DOMAIN labelsOf \cup {k} |->
                              IF j = k THEN labels ELSE labelsOf[j]]
          /\ ret' = Ok("train_kmeans", n_clusters, Some(k))
          /\ fitLog' = <<k>>
          /\ UNCHANGED <<df, engine, loader, main, files, optimal_k, inertiaOf>>

(***************************************************************************)
(* analyze_clusters (lines 180-239): the label of every cluster.           *)
(***************************************************************************)
RECURSIVE SortedValues(_)
SortedValues(vals) ==
    IF vals = <<>> THEN <<>>
    ELSE LET i == CHOOSE a \in DOMAIN vals : \A b \in DOMAIN vals : vals[a] <= vals[b]
             rest == [j \in 1..(Len(vals) - 1) |-> IF j < i THEN vals[j] ELSE vals[j + 1]]
         IN  <<vals[i]>> \o SortedValues(rest)

\* den * Series.quantile(num / den): linear interpolation between the order
\* statistics around position (n - 1) * num / den
ScaledQuantile(vals, num, den) ==
    LET x    == SortedValues(vals)
        n    == Len(x)
        pos  == (n - 1) * num
        lo   == pos \div den
        frac == pos % den
        hi   == IF lo + 1 < n THEN lo + 1 ELSE lo
    IN  den * x[lo + 1] + frac * (x[hi + 1] - x[lo + 1])

RECURSIVE SumOver(_, _)
SumOver(vals, members) ==
    IF members = {} THEN 0
    ELSE LET i == CHOOSE m \in members : TRUE
         IN  vals[i] + SumOver(vals, members \ {i})

\* faulty variant: the thresholds are the quantiles of the cluster's own members
MeanAboveOwnQuantile(vals, members, num, den) ==
    LET own == [j \in 1..Cardinality(members) |->
                   LET i == CHOOSE m \in members :
                                Cardinality({o \in members : o < m}) = j - 1
                   IN  vals[i]]
    IN  SumOver(vals, members) * den > ScaledQuantile(own, num, den) * Cardinality(members)

\* cluster_df[col].mean() > self.cluster_data[col].quantile(num / den)
MeanAbove(vals, members, num, den) ==
    SumOver(vals, members) * den > ScaledQuantile(vals, num, den) * Cardinality(members)

FundingAbove(table, members, num, den) ==
    MeanAbove([i \in DOMAIN table.rows |-> table.rows[i].total_funding], members, num, den)

RoundsAbove(table, members, num, den) ==
    MeanAbove([i \in DOMAIN table.rows |-> table.rows[i].num_funding_rounds], members, num, den)

Members(table, c) == {i \in DOMAIN table.cluster : table.cluster[i] = c}

\* faulty variant: no final else, a cluster that matches no rule gets no label
ClusterNameNoDefault(table, c) ==
    LET m == Members(table, c) IN
    IF FundingAbove(table, m, 3, 4) THEN
        IF RoundsAbove(table, m, 3, 4) THEN "High-Growth Unicorns"
        ELSE "Large Single-Round Players"
    ELSE IF FundingAbove(table, m, 1, 2) THEN "Mid-Tier Growth Startups"
    ELSE IF RoundsAbove(table, m, 3, 5) THEN "Frequent Small-Round Startups"
    ELSE ""

\* lines 207-217
ClusterName(table, c) ==
    LET m == Members(table, c) IN
    IF FundingAbove(table, m, 3, 4) THEN
        IF RoundsAbove(table, m, 3, 4) THEN "High-Growth Unicorns"
        ELSE "Large Single-Round Players"
    ELSE IF FundingAbove(table, m, 1, 2) THEN "Mid-Tier Growth Startups"
    ELSE IF RoundsAbove(table, m, 3, 5) THEN "Frequent Small-Round Startups"
    ELSE "Early-Stage Ventures"

analyze_clusters ==
    IF IsNone(cluster_data) THEN
        \* line 191: None.groupby
        /\ ret' = Raised("analyze_clusters", None, "AttributeError")
        /\ fitLog' = <<>>
        /\ UNCHANGED <<df, engine, loader, main, labelsOf, files, cluster_data, optimal_k, scaler, kmeans, inertiaOf>>
    ELSE IF IsNone(Get(cluster_data).cluster) THEN
        \* line 191: groupby('cluster') without a cluster column
        /\ ret' = Raised("analyze_clusters", None, "KeyError")
        /\ fitLog' = <<>>
        /\ UNCHANGED <<df, engine, loader, main, labelsOf, files, cluster_data, optimal_k, scaler, kmeans, inertiaOf>>
    ELSE
      LET table == Get(cluster_data)
          names == [i \in DOMAIN table.rows |-> ClusterName(table, table.cluster[i])]
      IN
        /\ cluster_data' = Some(Table(table.rows, table.cluster, names))
        /\ ret' = Ok("analyze_clusters", None, None)
        /\ fitLog' = <<>>
        /\ UNCHANGED <<df, engine, loader, main, labelsOf, files, optimal_k, scaler, kmeans, inertiaOf>>

(***************************************************************************)
(* visualize_clusters (lines 241-308): scales the features with the scaler *)
(* as it was last fitted, projects them with PCA(n_components=2) and saves *)
(* the figure.  savefig fails when its directory is missing.               *)
(***************************************************************************)
Plot(table, fittedOn) ==
    [X |-> FeatureMatrix(table), fittedOn |-> fittedOn, cluster |-> table.cluster]

visualize_clusters ==
    /\ fitLog' = <<>>
    /\ UNCHANGED <<df, engine, loader, main, labelsOf, cluster_data, optimal_k, scaler, kmeans, inertiaOf>>
    /\ IF IsNone(cluster_data) THEN
          \* line 252: None[feature_cols]
          /\ ret' = Raised("visualize_clusters", None, "TypeError")
          /\ UNCHANGED files
       ELSE IF IsNone(scaler) THEN
          \* line 253: transform on a scaler that was never fitted
          /\ ret' = Raised("visualize_clusters", None, "NotFittedError")
          /\ UNCHANGED files
       ELSE IF \/ Len(Get(cluster_data).rows) < 2
               \/ ~AllFinite(FeatureMatrix(Get(cluster_data))) THEN
          \* lines 253, 257: transform rejects 0 rows and cells that are not
          \* finite, PCA needs 2 rows for 2 components
          /\ ret' = Raised("visualize_clusters", None, "ValueError")
          /\ UNCHANGED files
       ELSE IF IsNone(Get(cluster_data).cluster) THEN
          \* line 264: self.cluster_data['cluster']
          /\ ret' = Raised("visualize_clusters", None, "KeyError")
          /\ UNCHANGED files
       ELSE
          \E directoryExists \in BOOLEAN :
            IF directoryExists THEN
              /\ files' = [files EXCEPT !.cluster_visualization =
                                Some(Plot(Get(cluster_data), Get(scaler)))]
              /\ ret' = Ok("visualize_clusters", None, None)
            ELSE
              \* line 305: savefig
              /\ ret' = Raised("visualize_clusters", None, "FileNotFoundError")
              /\ UNCHANGED files

(***************************************************************************)
(* save_cluster_results (lines 310-318): to_csv writes the whole table, or *)
(* fails on opening the file when its directory is missing.                *)
(***************************************************************************)
save_cluster_results ==
    /\ fitLog' = <<>>
    /\ UNCHANGED <<df, engine, loader, main, labelsOf, cluster_data, optimal_k, scaler, kmeans, inertiaOf>>
    /\ IF IsNone(cluster_data) THEN
          \* line 317: None.to_csv
          /\ ret' = Raised("save_cluster_results", None, "AttributeError")
          /\ UNCHANGED files
       ELSE
          \E directoryExists \in BOOLEAN :
            IF directoryExists THEN
              /\ files' = [files EXCEPT !.startup_clusters = cluster_data]
              /\ ret' = Ok("save_cluster_results", None, None)
            ELSE
              /\ ret' = Raised("save_cluster_results", None, "OSError")
              /\ UNCHANGED files

(***************************************************************************)
(* The clustering engine behind KMeans(...).fit (the call of lines         *)
(* 169-170): train(matrix, k, seed, restarts).  Its code is not part of    *)
(* the source tree; it is modelled from the specification's section 4.3:   *)
(* Lloyd's algorithm from initial centroids that the seed selects among    *)
(* the rows, once per restart, keeping the restart of lowest inertia.      *)
(* Rows are points with integer coordinates (the standardized matrix); a   *)
(* centroid is kept exact as the sum and the number of its member rows.    *)
(***************************************************************************)
Coordinates(p, q) == <<p, q>>
Centroid(sum, cnt) == [sum |-> sum, cnt |-> cnt]

RECURSIVE Factorial(_)
Factorial(n) == IF n <= 1 THEN 1 ELSE n * Factorial(n - 1)

\* faulty variant: the distance along the first coordinate only
DistanceFirst2(p, c, n) ==
    LET f  == Factorial(n)
        dx == f * p[1] - (f \div c.cnt) * c.sum[1]
    IN  dx * dx

\* the squared Euclidean distance of row p to centroid c, times Factorial(n)^2
\* (n the number of rows, so that every centroid has integer coordinates)
Distance2(p, c, n) ==
    LET f  == Factorial(n)
        dx == f * p[1] - (f \div c.cnt) * c.sum[1]
        dy == f * p[2] - (f \div c.cnt) * c.sum[2]
    IN  dx * dx + dy * dy

\* step 1: the centroid of minimum distance, ties broken by lowest index
NearestCentroid(p, cs, n) ==
    CHOOSE j \in DOMAIN cs :
        \A o \in DOMAIN cs :
            \/ Distance2(p, cs[j], n) < Distance2(p, cs[o], n)
            \/ Distance2(p, cs[j], n) = Distance2(p, cs[o], n) /\ j <= o

\* the centroid index of the rows 1..i, as a sequence
RECURSIVE AssignRows(_, _, _)
AssignRows(M, cs, i) ==
    IF i = 0 THEN <<>>
    ELSE Append(AssignRows(M, cs, i - 1), NearestCentroid(M[i], cs, Len(M)))

RECURSIVE SumRows(_, _)
SumRows(M, members) ==
    IF members = {} THEN Coordinates(0, 0)
    ELSE LET i == CHOOSE m \in members : TRUE
             rest == SumRows(M, members \ {i})
         IN  Coordinates(M[i][1] + rest[1], M[i][2] + rest[2])

\* step 2: every centroid becomes the mean of its rows; one without rows
\* keeps its position
RECURSIVE UpdateCentroids(_, _, _, _)
UpdateCentroids(M, cs, assignments, j) ==
    IF j = 0 THEN <<>>
    ELSE LET members == {i \in DOMAIN M : assignments[i] = j}
             moved   == IF members = {} THEN cs[j]
                        ELSE Centroid(SumRows(M, members), Cardinality(members))
         IN  Append(UpdateCentroids(M, cs, assignments, j - 1), moved)

RECURSIVE InertiaOver(_, _, _, _)
InertiaOver(M, cs, assignments, i) ==
    IF i = 0 THEN 0
    ELSE Distance2(M[i], cs[assignments[i]], Len(M))
            + InertiaOver(M, cs, assignments, i - 1)

\* cluster ids count from 0
RECURSIVE ClusterIdsOf(_, _)
ClusterIdsOf(assignments, i) ==
    IF i = 0 THEN <<>>
    ELSE Append(ClusterIdsOf(assignments, i - 1), assignments[i] - 1)

\* one restart: repeat steps 1 and 2 until the assignments stop changing
RECURSIVE Lloyd(_, _, _)
Lloyd(M, cs, previous) ==
    LET assignments == AssignRows(M, cs, Len(M))
        centroids   == UpdateCentroids(M, cs, assignments, Len(cs))
    IN  IF assignments = previous
        THEN [assignments |-> ClusterIdsOf(assignments, Len(M)),
              centroids   |-> centroids,
              inertia     |-> InertiaOver(M, centroids, assignments, Len(M))]
        ELSE Lloyd(M, centroids, assignments)

\* the restart that starts from the rows init[1], ..., init[k]
Restart(M, init) ==
    LET RECURSIVE Start(_)
        Start(j) == IF j = 0 THEN <<>>
                    ELSE Append(Start(j - 1), Centroid(M[init[j]], 1))
    IN  Lloyd(M, Start(Len(init)), <<>>)

\* faulty variant: a later restart of equal inertia replaces the one kept
ReplacesOnTie(run, best) == run.inertia <= best.inertia

\* a restart replaces the one kept so far only with a lower inertia
Replaces(run, best) == run.inertia < best.inertia

\* the index of the restart kept among runs[1], ..., runs[r]
RECURSIVE Kept(_, _)
Kept(runs, r) ==
    IF r = 1 THEN 1
    ELSE LET best == Kept(runs, r - 1)
         IN  IF Replaces(runs[r], runs[best]) THEN r ELSE best

\* the initial centroids the seed may select: k different rows, in any order
InitialRows(n, k) ==
    {init \in [1..k -> 1..n] : \A a, b \in 1..k : init[a] = init[b] => a = b}

\* every restart the seed may produce: its initial rows and its outcome
Restarts(M, k) ==
    {[init |-> init, run |-> Restart(M, init)] : init \in InitialRows(Len(M), k)}

\* the column of the restarts 1..r, as a sequence
RECURSIVE Column(_, _, _)
Column(picks, field, r) ==
    IF r = 0 THEN <<>> ELSE Append(Column(picks, field, r - 1), picks[r][field])

Pending(M, k, restarts) ==
    [matrix |-> M, k |-> k, restarts |-> restarts, status |-> "called",
     inits |-> <<>>, runs |-> <<>>, kept |-> 0, result |-> None]

train ==
    /\ ~IsNone(engine)
    /\ Get(engine).status = "called"
    /\ LET call == Get(engine)
           M    == call.matrix
       IN  IF call.k < 1 \/ call.k > Len(M) THEN
             engine' = Some([call EXCEPT !.status = "InvalidClusterCountError"])
           ELSE
             \E picks \in [1..call.restarts -> Restarts(M, call.k)] :
               LET inits == Column(picks, "init", call.restarts)
                   runs  == Column(picks, "run", call.restarts)
                   kept  == Kept(runs, call.restarts)
               IN  engine' = Some([call EXCEPT !.status = "returned",
                                               !.inits = inits,
                                               !.runs = runs,
                                               !.kept = kept,
                                               !.result = Some(runs[kept])])
    /\ UNCHANGED <<df, cluster_data, optimal_k, scaler, kmeans, inertiaOf, labelsOf,
                   fitLog, ret, files, loader, main>>

(***************************************************************************)
(* The same engine, one pass of the loop at a time: a restart repeats      *)
(* steps 1 and 2 "until assignments stop changing or a maximum iteration   *)
(* bound is reached".  The call record holds the restart in progress.      *)
(***************************************************************************)
RECURSIVE StartFrom(_, _, _)
StartFrom(M, init, j) ==
    IF j = 0 THEN <<>> ELSE Append(StartFrom(M, init, j - 1), Centroid(M[init[j]], 1))

Stepping(M, k, restarts) ==
    [matrix |-> M, k |-> k, restarts |-> restarts, status |-> "called",
     centroids |-> <<>>, previous |-> <<>>, iterations |-> 0,
     runs |-> <<>>, result |-> None]

\* faulty variant: the loop has no stop condition
NeverStops(assignments, previous, iterations) == FALSE

Stops(assignments, previous, iterations) ==
    assignments = previous \/ iterations >= MaxIterations

\* k is checked when the call starts
reject ==
    /\ ~IsNone(engine)
    /\ Get(engine).status = "called"
    /\ Get(engine).k < 1 \/ Get(engine).k > Len(Get(engine).matrix)
    /\ engine' = Some([Get(engine) EXCEPT !.status = "InvalidClusterCountError"])
    /\ UNCHANGED <<df, cluster_data, optimal_k, scaler, kmeans, inertiaOf, labelsOf,
                   fitLog, ret, files, loader, main>>

\* the next restart is seeded
start_restart ==
    /\ ~IsNone(engine)
    /\ Get(engine).status = "called"
    /\ Get(engine).k >= 1 /\ Get(engine).k <= Len(Get(engine).matrix)
    /\ \E init \in InitialRows(Len(Get(engine).matrix), Get(engine).k) :
          engine' = Some([Get(engine) EXCEPT
                            !.status = "iterating",
                            !.centroids = StartFrom(Get(engine).matrix, init, Get(engine).k),
                            !.previous = <<>>,
                            !.iterations = 0])
    /\ UNCHANGED <<df, cluster_data, optimal_k, scaler, kmeans, inertiaOf, labelsOf,
                   fitLog, ret, files, loader, main>>

\* what one pass computes from the centroids cs: step 1, step 2 and the
\* inertia of the outcome
Pass(M, cs) ==
    UNION {UNION {{[assignments |-> assignments, centroids |-> centroids,
                    inertia |-> inertia] :
                      inertia \in {InertiaOver(M, centroids, assignments, Len(M))}} :
                  centroids \in {UpdateCentroids(M, cs, assignments, Len(cs))}} :
           assignments \in {AssignRows(M, cs, Len(M))}}

\* one pass of steps 1 and 2; when the loop stops the restart is recorded,
\* and after the last restart the call returns the restart kept
iterate ==
    /\ ~IsNone(engine)
    /\ Get(engine).status = "iterating"
    /\ \E call \in {Get(engine)} :
       \E pass \in Pass(call.matrix, call.centroids) :
       \E iterations \in {IF call.iterations < MaxIterations
                           THEN call.iterations + 1 ELSE call.iterations} :
       \E runs \in {Append(call.runs,
                       [assignments |-> ClusterIdsOf(pass.assignments, Len(call.matrix)),
                        centroids   |-> pass.centroids,
                        inertia     |-> pass.inertia,
                        iterations  |-> iterations,
                        converged   |-> pass.assignments = call.previous])} :
          IF ~Stops(pass.assignments, call.previous, iterations) THEN
             engine' = Some([call EXCEPT !.centroids = pass.centroids,
                                         !.previous = pass.assignments,
                                         !.iterations = iterations])
          ELSE IF Len(runs) < call.restarts THEN
             engine' = Some([call EXCEPT !.status = "called", !.runs = runs])
          ELSE
             engine' = Some([call EXCEPT
                               !.status = "returned",
                               !.runs = runs,
                               !.result = Some(runs[Kept(runs, call.restarts)])])
    /\ UNCHANGED <<df, cluster_data, optimal_k, scaler, kmeans, inertiaOf, labelsOf,
                   fitLog, ret, files, loader, main>>

(***************************************************************************)
(* DataLoader (data_loader.py).  A Python str is held as the sequence of   *)
(* its characters, so that strip, upper, title, "in" and replace are       *)
(* computed on it.                                                         *)
(***************************************************************************)
LowerCase == <<"a", "b", "c", "d", "e", "f", "g", "h", "i", "j", "k", "l", "m", "n", "o", "p", "q", "r", "s", "t", "u", "v", "w", "x", "y", "z">>
UpperCase == <<"A", "B", "C", "D", "E", "F", "G", "H", "I", "J", "K", "L", "M", "N", "O", "P", "Q", "R", "S", "T", "U", "V", "W", "X", "Y", "Z">>
Digits == <<"0", "1", "2", "3", "4", "5", "6", "7", "8", "9">>

IsLower(c) == \E i \in DOMAIN LowerCase : LowerCase[i] = c
IsUpper(c) == \E i \in DOMAIN UpperCase : UpperCase[i] = c
ToUpper(c) ==
    IF IsLower(c) THEN UpperCase[CHOOSE i \in DOMAIN LowerCase : LowerCase[i] = c] ELSE c
ToLower(c) ==
    IF IsUpper(c) THEN LowerCase[CHOOSE i \in DOMAIN UpperCase : UpperCase[i] = c] ELSE c

\* str.upper() and str.lower()
RECURSIVE Upper(_)
Upper(str) ==
    IF str = <<>> THEN <<>> ELSE <<ToUpper(Head(str))>> \o Upper(Tail(str))
RECURSIVE Lower(_)
Lower(str) ==
    IF str = <<>> THEN <<>> ELSE <<ToLower(Head(str))>> \o Lower(Tail(str))

\* str.strip(): leading and trailing blanks removed
RECURSIVE LStrip(_)
LStrip(str) ==
    IF str # <<>> /\ Head(str) = " " THEN LStrip(Tail(str)) ELSE str
RECURSIVE RStrip(_)
RStrip(str) ==
    IF str # <<>> /\ str[Len(str)] = " " THEN RStrip(SubSeq(str, 1, Len(str) - 1))
    ELSE str
Strip(str) == RStrip(LStrip(str))

\* str.title(): a letter that follows a letter is lower-cased, any other
\* letter is upper-cased
RECURSIVE TitleFrom(_, _)
TitleFrom(str, afterLetter) ==
    IF str = <<>> THEN <<>>
    ELSE LET c == Head(str)
             letter == IsLower(c) \/ IsUpper(c)
         IN  <<IF afterLetter THEN ToLower(c) ELSE ToUpper(c)>>
                 \o TitleFrom(Tail(str), letter)
Title(str) == TitleFrom(str, FALSE)

\* "sub in str"
StartsWith(str, sub) == Len(sub) <= Len(str) /\ SubSeq(str, 1, Len(sub)) = sub
RECURSIVE Contains(_, _)
Contains(str, sub) ==
    \/ StartsWith(str, sub)
    \/ str # <<>> /\ Contains(Tail(str), sub)

\* str.replace(sub, ''): the occurrences of sub are removed, left to right
RECURSIVE Remove(_, _)
Remove(str, sub) ==
    IF str = <<>> THEN <<>>
    ELSE IF StartsWith(str, sub) THEN Remove(SubSeq(str, Len(sub) + 1, Len(str)), sub)
    ELSE <<Head(str)>> \o Remove(Tail(str), sub)


(***************************************************************************)
(* Cells of the loaded table: a missing value (NaN), a number or a str.    *)
(* A number is number * 10^exponent, kept with no trailing zero in number, *)
(* so that 1e9 and the decimal point of "1.5" need no wide integers.       *)
(***************************************************************************)
Missing == [missing |-> TRUE]
Str(chars) == [str |-> chars]
IsStr(cell) == DOMAIN cell = {"str"}
IsNumber(cell) == DOMAIN cell = {"number", "exponent"}

RECURSIVE Num(_, _)
Num(number, exponent) ==
    IF number \in {NaN, Inf} THEN [number |-> number, exponent |-> 0]
    ELSE IF number = 0 THEN [number |-> 0, exponent |-> 0]
    ELSE IF number % 10 = 0 THEN Num(number \div 10, exponent + 1)
    ELSE [number |-> number, exponent |-> exponent]

\* x * 10^exponent10
Times(x, exponent10) == Num(x.number, x.exponent + exponent10)

IsDigit(c) == \E i \in DOMAIN Digits : Digits[i] = c
DigitValue(c) == (CHOOSE i \in DOMAIN Digits : Digits[i] = c) - 1

RECURSIVE Decimal(_, _)
Decimal(str, value) ==
    IF str = <<>> THEN value ELSE Decimal(Tail(str), 10 * value + DigitValue(Head(str)))

\* float(str): None when Python raises ValueError.  Digits with at most one
\* decimal point, "INF", "INFINITY" and "NAN" are read; the amounts drawn
\* carry no sign, exponent or underscore.
Float(str) ==
    LET digits == SelectSeq(str, IsDigit)
        points == SelectSeq(str, LAMBDA c : c = ".")
        point  == CHOOSE i \in DOMAIN str : str[i] = "."
    IN  IF str \in {<<"I", "N", "F">>, <<"I", "N", "F", "I", "N", "I", "T", "Y">>} THEN Some(Num(Inf, 0))
        ELSE IF str = <<"N", "A", "N">> THEN Some(Num(NaN, 0))
        ELSE IF digits = <<>> \/ Len(points) > 1
                 \/ Len(digits) + Len(points) # Len(str) THEN None
        ELSE IF points = <<>> THEN Some(Num(Decimal(digits, 0), 0))
        ELSE Some(Num(Decimal(digits, 0), point - Len(str)))

\* lines 194-210: the elif chain; the first branch whose letter or word is
\* in the text gives the multiplier (as a power of ten) and removes first
\* the letter, then the word
Scaled(amount_str) ==
    IF Contains(amount_str, <<"B">>) \/ Contains(amount_str, <<"B", "I", "L", "L", "I", "O", "N">>)
    THEN [multiplier |-> 9, amount_str |-> Remove(Remove(amount_str, <<"B">>), <<"B", "I", "L", "L", "I", "O", "N">>)]
    ELSE IF Contains(amount_str, <<"M">>) \/ Contains(amount_str, <<"M", "I", "L", "L", "I", "O", "N">>)
    THEN [multiplier |-> 6, amount_str |-> Remove(Remove(amount_str, <<"M">>), <<"M", "I", "L", "L", "I", "O", "N">>)]
    ELSE IF Contains(amount_str, <<"K">>) \/ Contains(amount_str, <<"T", "H", "O", "U", "S", "A", "N", "D">>)
    THEN [multiplier |-> 3, amount_str |-> Remove(Remove(amount_str, <<"K">>), <<"T", "H", "O", "U", "S", "A", "N", "D">>)]
    ELSE IF Contains(amount_str, <<"C", "R">>) \/ Contains(amount_str, <<"C", "R", "O", "R", "E">>)
    THEN [multiplier |-> 7, amount_str |-> Remove(Remove(amount_str, <<"C", "R">>), <<"C", "R", "O", "R", "E">>)]
    ELSE IF Contains(amount_str, <<"L">>) \/ Contains(amount_str, <<"L", "A", "K", "H">>)
    THEN [multiplier |-> 5, amount_str |-> Remove(Remove(amount_str, <<"L">>), <<"L", "A", "K", "H">>)]
    ELSE [multiplier |-> 0, amount_str |-> amount_str]

\* DataLoader._clean_amount(amount), lines 173-215
_clean_amount(amount) ==
    IF amount = Missing THEN Num(0, 0)
    ELSE IF IsNumber(amount) THEN amount
    ELSE LET upper    == Upper(Strip(amount.str))
             stripped == Remove(Remove(Remove(upper, <<"$">>), <<"₹">>), <<",">>)
             scaled   == Scaled(stripped)
             parsed   == Float(Strip(scaled.amount_str))
         IN  IF IsNone(parsed) THEN Num(0, 0)
             ELSE Times(Get(parsed), scaled.multiplier)

\* DataLoader(filepath), lines 17-25: no table is loaded yet
DataLoader(filepath) == [filepath |-> filepath, df |-> None]

\* a call of loader._clean_amount(amount)
clean_amount(amount) ==
    /\ ~IsNone(loader)
    /\ ret' = Ok("_clean_amount", amount, _clean_amount(amount))
    /\ UNCHANGED <<df, cluster_data, optimal_k, scaler, kmeans, inertiaOf, labelsOf,
                   fitLog, files, engine, loader, main>>


(***************************************************************************)
(* The loaded table: its column names and its rows, each row a sequence of *)
(* cells in the order of the columns.                                      *)
(***************************************************************************)
Frame(columns, rows) == [columns |-> columns, rows |-> rows]

EndsWith(str, suffix) ==
    Len(suffix) <= Len(str)
        /\ SubSeq(str, Len(str) - Len(suffix) + 1, Len(str)) = suffix

LoaderUnchanged ==
    UNCHANGED <<df, cluster_data, optimal_k, scaler, kmeans, inertiaOf, labelsOf,
                fitLog, files, engine, main>>

\* DataLoader.load_data(), lines 27-47.  content is what the file holds:
\* None when there is no such file, else the table read from it.
load_data(content) ==
    /\ ~IsNone(loader)
    /\ LET self == Get(loader)
           readable == EndsWith(self.filepath, <<".", "c", "s", "v">>) \/ EndsWith(self.filepath, <<".", "x", "l", "s", "x">>)
                           \/ EndsWith(self.filepath, <<".", "x", "l", "s">>)
       IN  IF ~readable
           THEN /\ ret' = Raised("load_data", None, "ValueError")
                /\ UNCHANGED loader
           ELSE IF IsNone(content)
           THEN /\ ret' = Raised("load_data", None, "FileNotFoundError")
                /\ UNCHANGED loader
           ELSE /\ loader' = Some([self EXCEPT !.df = content])
                /\ ret' = Ok("load_data", None, None)
    /\ LoaderUnchanged

\* lines 58-81: the standard name the elif chain picks for a lower-cased,
\* stripped column name, or None
StandardName(col_lower) ==
    IF Contains(col_lower, <<"s", "t", "a", "r", "t", "u", "p">>) \/ Contains(col_lower, <<"c", "o", "m", "p", "a", "n", "y">>)
    THEN Some(<<"s", "t", "a", "r", "t", "u", "p", "_", "n", "a", "m", "e">>)
    ELSE IF Contains(col_lower, <<"i", "n", "d", "u", "s", "t", "r", "y">>) \/ Contains(col_lower, <<"s", "e", "c", "t", "o", "r">>)
                \/ Contains(col_lower, <<"v", "e", "r", "t", "i", "c", "a", "l">>)
    THEN Some(<<"i", "n", "d", "u", "s", "t", "r", "y">>)
    ELSE IF Contains(col_lower, <<"c", "i", "t", "y">>) /\ ~Contains(col_lower, <<"l", "o", "c", "a", "t", "i", "o", "n">>)
    THEN Some(<<"c", "i", "t", "y">>)
    ELSE IF Contains(col_lower, <<"s", "t", "a", "t", "e">>)
    THEN Some(<<"s", "t", "a", "t", "e">>)
    ELSE IF Contains(col_lower, <<"a", "m", "o", "u", "n", "t">>)
                \/ (Contains(col_lower, <<"f", "u", "n", "d", "i", "n", "g">>) /\ Contains(col_lower, <<"u", "s", "d">>))
    THEN Some(<<"f", "u", "n", "d", "i", "n", "g", "_", "a", "m", "o", "u", "n", "t", "_", "u", "s", "d">>)
    ELSE IF Contains(col_lower, <<"r", "o", "u", "n", "d">>) \/ Contains(col_lower, <<"s", "t", "a", "g", "e">>)
    THEN Some(<<"f", "u", "n", "d", "i", "n", "g", "_", "r", "o", "u", "n", "d">>)
    ELSE IF Contains(col_lower, <<"i", "n", "v", "e", "s", "t", "o", "r">>)
    THEN Some(<<"i", "n", "v", "e", "s", "t", "o", "r", "s">>)
    ELSE IF Contains(col_lower, <<"d", "a", "t", "e">>)
    THEN Some(<<"d", "a", "t", "e">>)
    ELSE None

\* lines 53-81: column_mapping after the loop has seen columns i, i+1, ...;
\* a dict, held as the set of its <<key, value>> pairs
RECURSIVE ColumnMapping(_, _, _)
ColumnMapping(columns, i, column_mapping) ==
    IF i > Len(columns) THEN column_mapping
    ELSE LET col    == columns[i]
             target == StandardName(Strip(Lower(col)))
             values == {item[2] : item \in column_mapping}
         IN  IF ~IsNone(target) /\ Get(target) \notin values
             THEN ColumnMapping(columns, i + 1,
                      {item \in column_mapping : item[1] # col} \cup {<<col, Get(target)>>})
             ELSE ColumnMapping(columns, i + 1, column_mapping)

\* line 84: df.rename(columns=column_mapping)
RECURSIVE Rename(_, _)
Rename(columns, column_mapping) ==
    IF columns = <<>> THEN <<>>
    ELSE LET col   == Head(columns)
             items == {item \in column_mapping : item[1] = col}
         IN  <<IF items = {} THEN col ELSE (CHOOSE item \in items : TRUE)[2]>>
                 \o Rename(Tail(columns), column_mapping)

\* DataLoader.standardize_columns(), lines 49-87
standardize_columns ==
    /\ ~IsNone(loader)
    /\ LET self == Get(loader)
       IN  IF IsNone(self.df)
           THEN /\ ret' = Raised("standardize_columns", None, "AttributeError")
                /\ UNCHANGED loader
           ELSE LET table == Get(self.df)
                    column_mapping == ColumnMapping(table.columns, 1, {})
                IN  /\ loader' = Some([self EXCEPT !.df =
                           Some(Frame(Rename(table.columns, column_mapping), table.rows))])
                    /\ ret' = Ok("standardize_columns", None, None)
    /\ LoaderUnchanged


(***************************************************************************)
(* Column access on the loaded table.                                      *)
(***************************************************************************)
HasColumn(table, name) == \E i \in DOMAIN table.columns : table.columns[i] = name
ColumnIndex(table, name) ==
    CHOOSE i \in DOMAIN table.columns :
        /\ table.columns[i] = name
        /\ \A j \in DOMAIN table.columns : table.columns[j] = name => i <= j

Cell(table, r, name) == table.rows[r][ColumnIndex(table, name)]

\* df[name] = cells: the column is replaced, or added as the last one
WithColumn(table, name, cells) ==
    IF HasColumn(table, name)
    THEN LET c == ColumnIndex(table, name)
         IN  Frame(table.columns,
                   [r \in DOMAIN table.rows |->
                       [i \in DOMAIN table.columns |->
                           IF i = c THEN cells[r] ELSE table.rows[r][i]]])
    ELSE Frame(Append(table.columns, name),
               [r \in DOMAIN table.rows |-> Append(table.rows[r], cells[r])])

\* df.dropna(subset=[name])
DropNa(table, name) ==
    LET c == ColumnIndex(table, name)
    IN  Frame(table.columns, SelectSeq(table.rows, LAMBDA row : row[c] # Missing))

\* df[name].fillna(value) where the column exists
FillCell(value, cell) == IF cell = Missing THEN value ELSE cell
FillColumn(table, name, value) ==
    IF ~HasColumn(table, name) THEN table
    ELSE WithColumn(table, name,
             [r \in DOMAIN table.rows |-> FillCell(value, Cell(table, r, name))])

\* df.drop_duplicates(): of equal rows the first is kept
RECURSIVE DropDuplicates(_, _)
DropDuplicates(rows, kept) ==
    IF rows = <<>> THEN kept
    ELSE IF \E i \in DOMAIN kept : kept[i] = Head(rows)
    THEN DropDuplicates(Tail(rows), kept)
    ELSE DropDuplicates(Tail(rows), Append(kept, Head(rows)))

\* pd.api.types.is_numeric_dtype: a column without a str cell is a float column
IsNumericColumn(table, name) ==
    LET c == ColumnIndex(table, name)
    IN  \A r \in DOMAIN table.rows : ~IsStr(table.rows[r][c])

(***************************************************************************)
(* Dates.  pd.to_datetime(errors='coerce') is modelled for the texts the   *)
(* tables hold: YYYY-MM-DD gives a date, any other text and NaN give NaT   *)
(* (Missing).                                                              *)
(***************************************************************************)
MonthNames ==
    << <<"J", "a", "n", "u", "a", "r", "y">>, <<"F", "e", "b", "r", "u", "a", "r", "y">>, <<"M", "a", "r", "c", "h">>, <<"A", "p", "r", "i", "l">>, <<"M", "a", "y">>, <<"J", "u", "n", "e">>, <<"J", "u", "l", "y">>, <<"A", "u", "g", "u", "s", "t">>,
       <<"S", "e", "p", "t", "e", "m", "b", "e", "r">>, <<"O", "c", "t", "o", "b", "e", "r">>, <<"N", "o", "v", "e", "m", "b", "e", "r">>, <<"D", "e", "c", "e", "m", "b", "e", "r">> >>
IsLeap(year) == (year % 4 = 0 /\ year % 100 # 0) \/ year % 400 = 0
DaysIn(year, month) ==
    IF month = 2 THEN (IF IsLeap(year) THEN 29 ELSE 28)
    ELSE IF month \in {4, 6, 9, 11} THEN 30 ELSE 31
Date(year, month, day) == [year |-> year, month |-> month, day |-> day]
IsDate(cell) == DOMAIN cell = {"year", "month", "day"}
ToDatetime(cell) ==
    IF ~IsStr(cell) THEN Missing
    ELSE LET text == Strip(cell.str)
         IN  IF Len(text) # 10 \/ text[5] # "-" \/ text[8] # "-"
                  \/ \E i \in {1, 2, 3, 4, 6, 7, 9, 10} : ~IsDigit(text[i])
             THEN Missing
             ELSE LET year  == Decimal(SubSeq(text, 1, 4), 0)
                      month == Decimal(SubSeq(text, 6, 7), 0)
                      day   == Decimal(SubSeq(text, 9, 10), 0)
                  IN  IF year >= 1 /\ month \in 1..12 /\ day \in 1..DaysIn(year, month)
                      THEN Date(year, month, day)
                      ELSE Missing

\* astype(str).str.strip().str.title() on a cell of a text column (str or NaN)
CleanText(cell) ==
    Str(Title(Strip(IF IsStr(cell) THEN cell.str ELSE <<"n", "a", "n">>)))

TextColumns == << <<"s", "t", "a", "r", "t", "u", "p", "_", "n", "a", "m", "e">>, <<"i", "n", "d", "u", "s", "t", "r", "y">>, <<"c", "i", "t", "y">>, <<"s", "t", "a", "t", "e">>, <<"f", "u", "n", "d", "i", "n", "g", "_", "r", "o", "u", "n", "d">> >>

\* lines 160-163, for the text columns i, i+1, ...
RECURSIVE CleanTextFields(_, _)
CleanTextFields(table, i) ==
    IF i > Len(TextColumns) THEN table
    ELSE LET col == TextColumns[i]
         IN  IF ~HasColumn(table, col) THEN CleanTextFields(table, i + 1)
             ELSE CleanTextFields(
                      WithColumn(table, col,
                          [r \in DOMAIN table.rows |-> CleanText(Cell(table, r, col))]),
                      i + 1)

\* lines 107-126.  Series.fillna(inplace=True) on df[col] changes df only
\* where pandas hands out the column itself (inplace); with copy-on-write it
\* fills a copy and df keeps its NaN.
HandleMissing(table, inplace) ==
    LET dropped == IF HasColumn(table, <<"s", "t", "a", "r", "t", "u", "p", "_", "n", "a", "m", "e">>)
                   THEN DropNa(table, <<"s", "t", "a", "r", "t", "u", "p", "_", "n", "a", "m", "e">>) ELSE table
        Unknown == Str(<<"U", "n", "k", "n", "o", "w", "n">>)
        Undisclosed == Str(<<"U", "n", "d", "i", "s", "c", "l", "o", "s", "e", "d">>)
    IN  IF ~inplace THEN dropped
        ELSE FillColumn(FillColumn(FillColumn(FillColumn(FillColumn(FillColumn(dropped,
                 <<"f", "u", "n", "d", "i", "n", "g", "_", "a", "m", "o", "u", "n", "t", "_", "u", "s", "d">>, Num(0, 0)), <<"i", "n", "d", "u", "s", "t", "r", "y">>, Unknown), <<"c", "i", "t", "y">>, Unknown),
                 <<"s", "t", "a", "t", "e">>, Unknown), <<"i", "n", "v", "e", "s", "t", "o", "r", "s">>, Undisclosed), <<"f", "u", "n", "d", "i", "n", "g", "_", "r", "o", "u", "n", "d">>, Unknown)

\* lines 131-138
CleanFundingAmount(table) ==
    IF HasColumn(table, <<"f", "u", "n", "d", "i", "n", "g", "_", "a", "m", "o", "u", "n", "t", "_", "u", "s", "d">>)
           /\ ~IsNumericColumn(table, <<"f", "u", "n", "d", "i", "n", "g", "_", "a", "m", "o", "u", "n", "t", "_", "u", "s", "d">>)
    THEN WithColumn(table, <<"f", "u", "n", "d", "i", "n", "g", "_", "a", "m", "o", "u", "n", "t", "_", "u", "s", "d">>,
             [r \in DOMAIN table.rows |->
                 _clean_amount(Cell(table, r, <<"f", "u", "n", "d", "i", "n", "g", "_", "a", "m", "o", "u", "n", "t", "_", "u", "s", "d">>))])
    ELSE table

\* lines 141-150
ParseDates(table) ==
    IF ~HasColumn(table, <<"d", "a", "t", "e">>) THEN table
    ELSE LET dates  == [r \in DOMAIN table.rows |-> ToDatetime(Cell(table, r, <<"d", "a", "t", "e">>))]
             parsed == DropNa(WithColumn(table, <<"d", "a", "t", "e">>, dates), <<"d", "a", "t", "e">>)
             rows   == DOMAIN parsed.rows
             date   == [r \in rows |-> Cell(parsed, r, <<"d", "a", "t", "e">>)]
             year   == [r \in rows |-> Num(date[r].year, 0)]
             month  == [r \in rows |-> Num(date[r].month, 0)]
             quarter == [r \in rows |-> Num(((date[r].month - 1) \div 3) + 1, 0)]
             month_name == [r \in rows |-> Str(MonthNames[date[r].month])]
         IN  WithColumn(WithColumn(WithColumn(WithColumn(parsed, <<"y", "e", "a", "r">>, year),
                 <<"m", "o", "n", "t", "h">>, month), <<"q", "u", "a", "r", "t", "e", "r">>, quarter), <<"m", "o", "n", "t", "h", "_", "n", "a", "m", "e">>, month_name)

\* lines 152-155
RemoveDuplicates(table) == Frame(table.columns, DropDuplicates(table.rows, <<>>))

\* DataLoader.clean_data(), lines 89-171
Cleaned(table, inplace) ==
    CleanTextFields(
        RemoveDuplicates(ParseDates(CleanFundingAmount(HandleMissing(table, inplace)))), 1)

clean_data(inplace) ==
    /\ ~IsNone(loader)
    /\ LET self == Get(loader)
       IN  IF IsNone(self.df)
           THEN /\ ret' = Raised("clean_data", None, "TypeError")
                /\ UNCHANGED loader
           ELSE /\ \E cleaned \in {Cleaned(Get(self.df), inplace)} :
                      loader' = Some([self EXCEPT !.df = Some(cleaned)])
                /\ ret' = Ok("clean_data", None, None)
    /\ LoaderUnchanged


\* DataLoader.get_summary_statistics(), lines 217-242; of the summary the
\* record and startup counts are kept
get_summary_statistics ==
    /\ ~IsNone(loader)
    /\ LET self == Get(loader)
       IN  IF IsNone(self.df)
           THEN ret' = Raised("get_summary_statistics", None, "TypeError")
           ELSE LET table == Get(self.df)
                    names == IF HasColumn(table, <<"s", "t", "a", "r", "t", "u", "p", "_", "n", "a", "m", "e">>)
                             THEN {table.rows[r][ColumnIndex(table, <<"s", "t", "a", "r", "t", "u", "p", "_", "n", "a", "m", "e">>)] :
                                       r \in DOMAIN table.rows} \ {Missing}
                             ELSE {}
                IN  ret' = Ok("get_summary_statistics", None,
                              Some([total_records |-> Len(table.rows),
                                    total_startups |-> Cardinality(names)]))
    /\ UNCHANGED loader
    /\ LoaderUnchanged

\* DataLoader.save_cleaned_data(output_path), lines 243-251; writable: the
\* file system accepts the file
save_cleaned_data(writable) ==
    /\ ~IsNone(loader)
    /\ LET self == Get(loader)
       IN  IF IsNone(self.df)
           THEN /\ ret' = Raised("save_cleaned_data", None, "AttributeError")
                /\ UNCHANGED files
           ELSE IF ~writable
           THEN /\ ret' = Raised("save_cleaned_data", None, "OSError")
                /\ UNCHANGED files
           ELSE /\ files' = [files EXCEPT !.cleaned_data = self.df]
                /\ ret' = Ok("save_cleaned_data", None, None)
    /\ UNCHANGED <<df, cluster_data, optimal_k, scaler, kmeans, inertiaOf, labelsOf,
                   fitLog, engine, loader, main>>


(***************************************************************************)
(* StartupEDA (eda_analysis.py): the nine analyses of                      *)
(* generate_comprehensive_report, each with the columns it reads (a        *)
(* missing one raises KeyError) and the figure it saves.                   *)
(***************************************************************************)
Analyses ==
    << [figure |-> "funding_distribution", columns |-> {<<"f", "u", "n", "d", "i", "n", "g", "_", "a", "m", "o", "u", "n", "t", "_", "u", "s", "d">>}],
       [figure |-> "top_startups", columns |-> {<<"s", "t", "a", "r", "t", "u", "p", "_", "n", "a", "m", "e">>, <<"f", "u", "n", "d", "i", "n", "g", "_", "a", "m", "o", "u", "n", "t", "_", "u", "s", "d">>}],
       [figure |-> "industry_analysis", columns |-> {<<"i", "n", "d", "u", "s", "t", "r", "y">>, <<"f", "u", "n", "d", "i", "n", "g", "_", "a", "m", "o", "u", "n", "t", "_", "u", "s", "d">>}],
       [figure |-> "geographic_analysis",
        columns |-> {<<"c", "i", "t", "y">>, <<"s", "t", "a", "t", "e">>, <<"f", "u", "n", "d", "i", "n", "g", "_", "a", "m", "o", "u", "n", "t", "_", "u", "s", "d">>}],
       [figure |-> "time_trends", columns |-> {<<"y", "e", "a", "r">>, <<"m", "o", "n", "t", "h">>, <<"f", "u", "n", "d", "i", "n", "g", "_", "a", "m", "o", "u", "n", "t", "_", "u", "s", "d">>}],
       [figure |-> "funding_rounds", columns |-> {<<"f", "u", "n", "d", "i", "n", "g", "_", "r", "o", "u", "n", "d">>, <<"f", "u", "n", "d", "i", "n", "g", "_", "a", "m", "o", "u", "n", "t", "_", "u", "s", "d">>}],
       [figure |-> "investor_analysis", columns |-> {<<"i", "n", "v", "e", "s", "t", "o", "r", "s">>}],
       [figure |-> "correlation_heatmap",
        columns |-> {<<"f", "u", "n", "d", "i", "n", "g", "_", "a", "m", "o", "u", "n", "t", "_", "u", "s", "d">>, <<"y", "e", "a", "r">>, <<"m", "o", "n", "t", "h">>, <<"q", "u", "a", "r", "t", "e", "r">>}],
       [figure |-> "outlier_analysis", columns |-> {<<"f", "u", "n", "d", "i", "n", "g", "_", "a", "m", "o", "u", "n", "t", "_", "u", "s", "d">>, <<"y", "e", "a", "r">>}] >>

\* StartupEDA(dataframe), lines 24-32
StartupEDA(dataframe) == [df |-> dataframe, figures |-> <<>>]

Reads(table, i) == \A name \in Analyses[i].columns : HasColumn(table, name)

\* the first analysis that raises, or Len(Analyses) + 1 when none does;
\* failing is the analysis in which the plotting library raises (0: none)
FirstRaise(table, failing) ==
    Min({i \in DOMAIN Analyses : ~Reads(table, i) \/ i = failing}
            \cup {Len(Analyses) + 1})

\* StartupEDA.generate_comprehensive_report(), lines 452-474, on main's eda
generate_comprehensive_report(failing) ==
    /\ ~IsNone(main) /\ ~IsNone(Get(main).eda)
    /\ LET self   == Get(Get(main).eda)
           raise  == FirstRaise(self.df, failing)
           saved  == [i \in 1..(raise - 1) |-> Analyses[i].figure]
       IN  /\ files' = [files EXCEPT !.figures = saved]
           /\ main' = Some([Get(main) EXCEPT !.eda = Some([self EXCEPT !.figures = saved])])
           /\ ret' = IF raise > Len(Analyses)
                     THEN Ok("generate_comprehensive_report", None, None)
                     ELSE Raised("generate_comprehensive_report", None,
                                 IF Reads(self.df, raise) THEN "ValueError" ELSE "KeyError")
    /\ UNCHANGED <<df, cluster_data, optimal_k, scaler, kmeans, inertiaOf, labelsOf,
                   fitLog, engine, loader>>

(***************************************************************************)
(* The cleaned table as the frame of records the clustering model works    *)
(* on: the texts, amounts and years of its rows.                           *)
(***************************************************************************)
Texts == <<"Acme", "Byju", "Cred", "Dunzo", "Eruditus", "Flipkart", "Groww", "Hike", "Inmobi", "Juspay", "Khatabook", "Lenskart", "Fintech", "Pune", "Edtech", "Delhi">>
TextChars ==
    <<
      <<"A", "c", "m", "e">>,
      <<"B", "y", "j", "u">>,
      <<"C", "r", "e", "d">>,
      <<"D", "u", "n", "z", "o">>,
      <<"E", "r", "u", "d", "i", "t", "u", "s">>,
      <<"F", "l", "i", "p", "k", "a", "r", "t">>,
      <<"G", "r", "o", "w", "w">>,
      <<"H", "i", "k", "e">>,
      <<"I", "n", "m", "o", "b", "i">>,
      <<"J", "u", "s", "p", "a", "y">>,
      <<"K", "h", "a", "t", "a", "b", "o", "o", "k">>,
      <<"L", "e", "n", "s", "k", "a", "r", "t">>,
      <<"F", "i", "n", "t", "e", "c", "h">>,
      <<"P", "u", "n", "e">>,
      <<"E", "d", "t", "e", "c", "h">>,
      <<"D", "e", "l", "h", "i">> >>
Chars(text) == TextChars[CHOOSE i \in DOMAIN Texts : Texts[i] = text]
Text(chars) == Texts[CHOOSE i \in DOMAIN TextChars : TextChars[i] = chars]

RECURSIVE Power10(_)
Power10(e) == IF e = 0 THEN 1 ELSE 10 * Power10(e - 1)
Value(cell) == cell.number * Power10(cell.exponent)

RECURSIVE Numeral(_)
Numeral(n) ==
    IF n < 10 THEN <<Digits[n + 1]>>
    ELSE Numeral(n \div 10) \o <<Digits[(n % 10) + 1]>>

FrameOf(table) ==
    [r \in DOMAIN table.rows |->
        Record(Text(Cell(table, r, <<"s", "t", "a", "r", "t", "u", "p", "_", "n", "a", "m", "e">>).str),
               Value(Cell(table, r, <<"f", "u", "n", "d", "i", "n", "g", "_", "a", "m", "o", "u", "n", "t", "_", "u", "s", "d">>)),
               Value(Cell(table, r, <<"y", "e", "a", "r">>)),
               <<Text(Cell(table, r, <<"i", "n", "d", "u", "s", "t", "r", "y">>).str),
                 Text(Cell(table, r, <<"c", "i", "t", "y">>).str)>>)]

(***************************************************************************)
(* Construction: StartupClustering(dataframe).                             *)
(***************************************************************************)
\* no output exists yet: neither ../data/startup_clusters.csv nor the cluster
\* plot, nor the cleaned data or a figure of the exploratory analysis
NoFiles ==
    [startup_clusters |-> None, cluster_visualization |-> None,
     cleaned_data |-> None, figures |-> <<>>]

Constructed(frame) ==
    /\ engine = None
    /\ loader = None
    /\ main = None
    /\ df = frame
    /\ cluster_data = None
    /\ optimal_k = None
    /\ scaler = None
    /\ kmeans = None
    /\ inertiaOf = <<>>
    /\ labelsOf = <<>>
    /\ fitLog = <<>>
    /\ ret = NoCall
    /\ files = NoFiles

\* feature building over every record sequence of up to MaxRecords records
InitFeatures == \E frame \in SeqsUpTo(RecordVals(NamesUpTo(3)), MaxRecords) : Constructed(frame)
NextFeatures == prepare_features
SpecFeatures == InitFeatures /\ [][NextFeatures]_vars

\* K selection over frames of 0..MaxEntities startups with one round each, of
\* which the first d have pairwise distinct features
ElbowFrame(n, d) ==
    [i \in 1..n |->
        Record(NameOrder[i], IF i < d THEN i ELSE d, 2019, <<"Fintech", "Pune">>)]
ElbowFrames ==
    {ElbowFrame(n, d) : n \in 0..MaxEntities, d \in 1..MaxEntities}
InitElbow == \E frame \in ElbowFrames : Constructed(frame)
NextElbow ==
    \/ prepare_features
    \/ \E max_k \in MaxKArgs : find_optimal_k(max_k)
SpecElbow == InitElbow /\ [][NextElbow]_vars

\* training and labelling over frames of up to MaxSmall startups; a startup
\* has one or two rounds of one amount, and startups are listed by profile
\* (any assignment of rows to clusters is tried, so their order adds nothing)
Profiles == <<[rounds |-> 2, amount |-> 1], [rounds |-> 1, amount |-> 3],
              [rounds |-> 2, amount |-> 3]>>

RECURSIVE ProfileFrame(_, _)
ProfileFrame(ps, i) ==
    IF i > Len(ps) THEN <<>>
    ELSE LET p == Profiles[ps[i]]
             first == Record(NameOrder[i], p.amount, 2019, <<"Fintech", "Pune">>)
             second == Record(NameOrder[i], p.amount, 2021, <<"Edtech", "Delhi">>)
         IN  (IF p.rounds = 1 THEN <<first>> ELSE <<first, second>>)
                 \o ProfileFrame(ps, i + 1)

ProfileLists ==
    {ps \in SeqsUpTo(DOMAIN Profiles, MaxSmall) :
        \A i, j \in DOMAIN ps : i <= j => ps[i] <= ps[j]}

\* no cluster count, every count up to MaxTrainK, and one that exceeds the rows
TrainArgs == {None} \cup {Some(k) : k \in 0..MaxTrainK \cup {MaxSmall + 1}}

Init == \E ps \in ProfileLists : Constructed(ProfileFrame(ps, 1))
Next ==
    \/ prepare_features
    \/ \E n_clusters \in TrainArgs : train_kmeans(n_clusters)
    \/ analyze_clusters
Spec == Init /\ [][Next]_vars

(***************************************************************************)
(* run_complete_clustering (lines 320-339), as main calls it on a freshly  *)
(* constructed object (main.py lines 94-95): the six stages run in order,  *)
(* each after the one before it has returned.  An exception of a stage     *)
(* leaves run_complete_clustering and is caught by main's "except          *)
(* Exception" (lines 139-143), so no later stage runs.                     *)
(***************************************************************************)
\* "def find_optimal_k(self, max_k=10)"
DefaultMaxK == 10

\* faulty variant: the results are saved before the model is trained
StagesSaveFirst ==
    <<"prepare_features", "find_optimal_k", "save_cluster_results",
      "train_kmeans", "analyze_clusters", "visualize_clusters">>

Stages ==
    <<"prepare_features", "find_optimal_k", "train_kmeans",
      "analyze_clusters", "visualize_clusters", "save_cluster_results">>

\* the pipeline is about to call the stage: the stage before it has returned
AtStage(stage) ==
    LET i == CHOOSE j \in DOMAIN Stages : Stages[j] = stage
    IN  IF i = 1 THEN ret = NoCall
        ELSE ret.op = Stages[i - 1] /\ ret.status = "ok"

\* frames of n startups drawn from a list of profiles, the startups beyond
\* the list repeating its last profile; n is around the default max_k
PipelineSizes == {0, DefaultMaxK - 1, DefaultMaxK, DefaultMaxK + 1}
PipelineFrame(ps, n) ==
    ProfileFrame([i \in 1..n |-> ps[IF i < Len(ps) THEN i ELSE Len(ps)]], 1)
PipelineFrames ==
    {PipelineFrame(ps, n) : ps \in ProfileLists \ {<<>>}, n \in PipelineSizes}

InitPipeline == \E frame \in PipelineFrames : Constructed(frame)
NextPipeline ==
    \/ AtStage("prepare_features") /\ prepare_features
    \/ AtStage("find_optimal_k") /\ find_optimal_k(DefaultMaxK)
    \/ AtStage("train_kmeans") /\ train_kmeans(None)
    \/ AtStage("analyze_clusters") /\ analyze_clusters
    \/ AtStage("visualize_clusters") /\ visualize_clusters
    \/ AtStage("save_cluster_results") /\ save_cluster_results
SpecPipeline == InitPipeline /\ [][NextPipeline]_vars

(***************************************************************************)
(* The operations that scale, over frames whose amounts may be missing or  *)
(* infinite: _clean_amount (data_loader.py line 214) returns float(s) for  *)
(* the strings "nan" and "inf", and a numeric column keeps such values.    *)
(* Two startups, so that a table of two rows can be plotted.               *)
(***************************************************************************)
ScaleAmounts == {1, NaN, Inf}
ScaleRecords ==
    {Record(name, amount, 2019, <<"Fintech", "Pune">>) :
        name \in NamesUpTo(2), amount \in ScaleAmounts}
ScaleFrames == SeqsUpTo(ScaleRecords, MaxRecords)
ScaleTrainArgs == {None, Some(1), Some(2)}

InitScale == \E frame \in ScaleFrames : Constructed(frame)
NextScale ==
    \/ prepare_features
    \/ find_optimal_k(KMin)
    \/ \E n_clusters \in ScaleTrainArgs : train_kmeans(n_clusters)
    \/ visualize_clusters
SpecScale == InitScale /\ [][NextScale]_vars

(***************************************************************************)
(* K selection followed by training.  Five startups of different total     *)
(* funding are the fewest rows on which the elbow scan of K = 2..4 can     *)
(* select a K (it needs a positive inertia at K = 4); four startups of     *)
(* equal features have few labelings, and on them training without a       *)
(* cluster count is called at any time.  On the five it is called once the *)
(* scan has selected a K: the 4^5 labelings of the default K are not       *)
(* followed.  An explicit count is one that fits or one that exceeds the   *)
(* rows.                                                                   *)
(***************************************************************************)
SelectRows == 5
SelectMaxK == 4
SelectFrames == {ElbowFrame(SelectRows - 1, 1), ElbowFrame(SelectRows, SelectRows)}
SelectTrainArgs == {Some(1), Some(SelectRows + 1)}
ScanSelected == ~IsNone(optimal_k) /\ Get(optimal_k) # DefaultK

InitSelect == \E frame \in SelectFrames : Constructed(frame)
NextSelect ==
    \/ prepare_features
    \/ find_optimal_k(SelectMaxK)
    \/ \E n_clusters \in SelectTrainArgs : train_kmeans(n_clusters)
    \/ (Len(df) < SelectRows \/ ScanSelected) /\ train_kmeans(None)
SpecSelect == InitSelect /\ [][NextSelect]_vars

(***************************************************************************)
(* Calls of the clustering engine on three rows (the scenario of the       *)
(* specification): every matrix of three grid points, listed in ascending  *)
(* order and shifted to touch both axes (distances do not change under a   *)
(* shift), every k from 0 to 4 and every restart count up to MaxRestarts.  *)
(***************************************************************************)
EngineRows == 3
GridPoints == {Coordinates(x, y) : x \in 0..MaxCoord, y \in 0..MaxCoord}
PointRank(p) == p[1] * (MaxCoord + 1) + p[2]
EngineMatrices ==
    {M \in [1..EngineRows -> GridPoints] :
        /\ \A i, j \in DOMAIN M : i <= j => PointRank(M[i]) <= PointRank(M[j])
        /\ \E i \in DOMAIN M : M[i][1] = 0
        /\ \E i \in DOMAIN M : M[i][2] = 0}

InitEngine ==
    /\ \E M \in EngineMatrices, k \in 0..(EngineRows + 1), restarts \in 1..MaxRestarts :
          engine = Some(Pending(M, k, restarts))
    /\ df = <<>> /\ cluster_data = None /\ optimal_k = None /\ scaler = None
    /\ kmeans = None /\ inertiaOf = <<>> /\ labelsOf = <<>> /\ fitLog = <<>>
    /\ ret = NoCall /\ files = NoFiles /\ loader = None /\ main = None
NextEngine == train
SpecEngine == InitEngine /\ [][NextEngine]_vars

\* calls followed pass by pass, on the matrices of coordinates up to
\* LloydCoord with one or two restarts; a call that has started goes on
LloydCoord == 2
LloydRestarts == 2
LloydMatrices ==
    {M \in EngineMatrices :
        \A i \in DOMAIN M : M[i][1] <= LloydCoord /\ M[i][2] <= LloydCoord}
InitLloyd ==
    /\ \E M \in LloydMatrices, k \in 0..(EngineRows + 1), restarts \in 1..LloydRestarts :
          engine = Some(Stepping(M, k, restarts))
    /\ df = <<>> /\ cluster_data = None /\ optimal_k = None /\ scaler = None
    /\ kmeans = None /\ inertiaOf = <<>> /\ labelsOf = <<>> /\ fitLog = <<>>
    /\ ret = NoCall /\ files = NoFiles /\ loader = None /\ main = None
NextLloyd == reject \/ start_restart \/ iterate
SpecLloyd == InitLloyd /\ [][NextLloyd]_vars /\ WF_vars(NextLloyd)

(***************************************************************************)
(* Observations of the last call shared by the properties below.           *)
(***************************************************************************)
Called(op) == ret.op = op
Returned(op) == ret.op = op /\ ret.status = "ok"
Failed(op) == ret.op = op /\ ret.status = "error"

\* the distinct startup names of the input records
InputNames == {df[i].startup_name : i \in DOMAIN df}
\* the feature rows after prepare_features
Rows == Get(cluster_data).rows
RowNames == {Rows[i].startup_name : i \in DOMAIN Rows}

\* the inertia list the last successful find_optimal_k call worked on
LastMaxK == Get(ret.arg)
LastInertias == InertiaList(inertiaOf, LastMaxK)
\* the last find_optimal_k call returned and its rates were all finite
ScannedFinite == Returned("find_optimal_k") /\ ~DividesByZero(LastInertias)
\* rates[i] is the first rate at an index >= from that is below the threshold
FirstBelow(i, from) ==
    /\ BelowThreshold(LastInertias, i)
    /\ \A j \in from..(i - 1) : ~BelowThreshold(LastInertias, j)

(***************************************************************************)
(* C1: for every non-empty record sequence, prepare_features yields        *)
(* exactly one feature vector per distinct startup name: as many rows as   *)
(* distinct names, every input name present, no name twice.                *)
(***************************************************************************)
C1_OneVectorPerEntity ==
    (Returned("prepare_features") /\ df # <<>>) =>
        /\ Len(Rows) = Cardinality(InputNames)
        /\ RowNames = InputNames
        /\ \A i, j \in DOMAIN Rows :
              Rows[i].startup_name = Rows[j].startup_name => i = j

\* three records of two startups, interleaved, have been aggregated to two rows
C1_Witness ==
    /\ Returned("prepare_features")
    /\ Len(df) = 3
    /\ Cardinality(InputNames) = 2
    /\ df[1].startup_name = df[3].startup_name
    /\ Len(Rows) = 2

(***************************************************************************)
(* C2: after every successful training run with K clusters every startup   *)
(* carries exactly one cluster id, the id lies in [0, K), and the sizes of *)
(* the clusters 0..K-1 add up to the number of startups.                   *)
(***************************************************************************)
TrainedK == Get(ret.value)
Assignment == Get(cluster_data).cluster

RECURSIVE SizesUpTo(_)
SizesUpTo(c) ==
    IF c < 0 THEN 0
    ELSE Cardinality({i \in DOMAIN Assignment : Assignment[i] = c}) + SizesUpTo(c - 1)

C2_PartitionComplete ==
    Returned("train_kmeans") =>
        /\ TrainedK >= 1 /\ TrainedK <= Len(Rows)
        /\ DOMAIN Assignment = DOMAIN Rows
        /\ \A i \in DOMAIN Rows : Assignment[i] >= 0 /\ Assignment[i] < TrainedK
        /\ SizesUpTo(TrainedK - 1) = Len(Rows)

\* three startups were split into two non-empty clusters
C2_Witness ==
    /\ Returned("train_kmeans")
    /\ TrainedK = 2
    /\ Len(Rows) = 3
    /\ {Assignment[i] : i \in DOMAIN Assignment} = {0, 1}

(***************************************************************************)
(* C3 (as claimed): with rate[i] indexed from the inertia list, i = 1 ..   *)
(* last index, the first i > 0 whose rate is below the threshold makes K   *)
(* selection return kMin + i + 1.  The code's rates[i - 1] is that rate[i]. *)
(***************************************************************************)
C3_AsClaimed ==
    ScannedFinite =>
        \A i \in 1..RateCount(LastInertias) :
            (/\ BelowThreshold(LastInertias, i - 1)
             /\ \A j \in 1..(i - 1) : ~BelowThreshold(LastInertias, j - 1))
                => ret.value = Some(KMin + i + 1)

(***************************************************************************)
(* C3 (amended): over the 0-based list rates, rates[i] = (inertias[i] -    *)
(* inertias[i+1]) / inertias[i] * 100, the scan starts at index 1 and at   *)
(* the first index i >= 1 with rates[i] < mean(rates) * 0.5 K selection    *)
(* returns kMin + i = i + 2; rates[0] is never a candidate.                *)
(***************************************************************************)
C3_ElbowOffset ==
    ScannedFinite =>
        \A i \in 1..(RateCount(LastInertias) - 1) :
            FirstBelow(i, 1) => ret.value = Some(KMin + i)

\* three rates, rates[0] and rates[1] both below the threshold: index 0 is
\* skipped, index 1 is the first scanned hit and K = 3 is returned
C3_Witness ==
    /\ ScannedFinite
    /\ RateCount(LastInertias) = 3
    /\ BelowThreshold(LastInertias, 0)
    /\ FirstBelow(1, 1)
    /\ ret.value = Some(3)

(***************************************************************************)
(* C4: whenever no scanned index (index > 0) of the rate list has a rate   *)
(* below the threshold, find_optimal_k returns 4, on every invocation.     *)
(***************************************************************************)
C4_DefaultIsFour ==
    (ScannedFinite /\ \A i \in 1..(RateCount(LastInertias) - 1) :
                          ~BelowThreshold(LastInertias, i))
        => ret.value = Some(4)

(***************************************************************************)
(* C5: a call is stateless: the K that find_optimal_k returns is the K a   *)
(* freshly constructed object returns for the same features and max_k.     *)
(***************************************************************************)
FreshK(inertias) ==
    IF DividesByZero(inertias) \/ ScanHits(inertias) = {}
    THEN DefaultK
    ELSE ElbowK(Min(ScanHits(inertias)))

C5_Stateless == Returned("find_optimal_k") => ret.value = Some(FreshK(LastInertias))

(***************************************************************************)
(* C6: the label of a cluster is the first match of the ordered list       *)
(* (1) mean funding > q75 and mean rounds > q75: High-Growth Unicorns,     *)
(* (2) mean funding > q75: Large Single-Round Players, (3) mean funding >  *)
(* q50: Mid-Tier Growth Startups, (4) mean rounds > q60: Frequent          *)
(* Small-Round Startups, (5) otherwise Early-Stage Ventures, the quantiles *)
(* being those of all startups.                                            *)
(***************************************************************************)
AllFunding == [i \in DOMAIN Rows |-> Rows[i].total_funding]
AllRounds == [i \in DOMAIN Rows |-> Rows[i].num_funding_rounds]
ClusterOf(c) == {i \in DOMAIN Assignment : Assignment[i] = c}

\* mean of vals over the cluster c > the num/den quantile of vals over everyone
AboveGlobal(vals, c, num, den) ==
    SumOver(vals, ClusterOf(c)) * den
        > ScaledQuantile(vals, num, den) * Cardinality(ClusterOf(c))

DecisionList(c) ==
    <<  <<AboveGlobal(AllFunding, c, 3, 4) /\ AboveGlobal(AllRounds, c, 3, 4),
          "High-Growth Unicorns">>,
        <<AboveGlobal(AllFunding, c, 3, 4), "Large Single-Round Players">>,
        <<AboveGlobal(AllFunding, c, 1, 2), "Mid-Tier Growth Startups">>,
        <<AboveGlobal(AllRounds, c, 3, 5), "Frequent Small-Round Startups">>,
        <<TRUE, "Early-Stage Ventures">>  >>

FirstMatch(rules) ==
    rules[Min({r \in DOMAIN rules : rules[r][1]})][2]

C6_LabelDecisionList ==
    Returned("analyze_clusters") =>
        \A i \in DOMAIN Rows :
            Get(cluster_data).cluster_name[i] = FirstMatch(DecisionList(Assignment[i]))

\* two clusters of one run were labelled by rule 4 and by rule 2
C6_Witness ==
    /\ Returned("analyze_clusters")
    /\ \E i, j \in DOMAIN Rows :
          /\ Assignment[i] # Assignment[j]
          /\ Get(cluster_data).cluster_name[i] = "Frequent Small-Round Startups"
          /\ Get(cluster_data).cluster_name[j] = "Large Single-Round Players"

(***************************************************************************)
(* C7: prepare_features on an empty record sequence fails (the spec's      *)
(* EmptyInputError); it does not return an empty feature collection.       *)
(***************************************************************************)
C7_EmptyInputFails ==
    (Called("prepare_features") /\ df = <<>>) =>
        ret.status = "error" /\ IsNone(cluster_data)

(***************************************************************************)
(* C8: training with a given cluster count k fails (the spec's             *)
(* InvalidClusterCountError; in the code the library's ValueError)         *)
(* whenever k < 1 or k > number of startups, and otherwise succeeds with   *)
(* every startup assigned.                                                 *)
(***************************************************************************)
GivenK == Get(ret.arg)

C8_FailsExactlyOnBadK ==
    (Called("train_kmeans") /\ ~IsNone(ret.arg) /\ ~IsNone(cluster_data)) =>
        IF GivenK < 1 \/ GivenK > Len(Rows)
        THEN ret.status = "error"
        ELSE /\ ret.status = "ok"
             /\ DOMAIN Assignment = DOMAIN Rows
             /\ \A i \in DOMAIN Rows : Assignment[i] \in 0..(GivenK - 1)

\* one cluster more than there are startups was asked for, and training failed
C8_Witness ==
    /\ Failed("train_kmeans")
    /\ ~IsNone(ret.arg) /\ ~IsNone(cluster_data)
    /\ Len(Rows) >= 1
    /\ GivenK = Len(Rows) + 1

(***************************************************************************)
(* C9: K selection never hands the clustering engine a k outside           *)
(* [1, number of entities].                                                *)
(***************************************************************************)
C9_NeverFitsOutOfRange ==
    (Called("find_optimal_k") /\ ~IsNone(cluster_data)) =>
        \A i \in DOMAIN fitLog : fitLog[i] >= 1 /\ fitLog[i] <= Len(Rows)

(***************************************************************************)
(* C10: K selection on a prepared feature table fails exactly when         *)
(* kMax < kMin or kMax exceeds the number of entities.                     *)
(***************************************************************************)
C10_FailsExactlyOnBadRange ==
    (Called("find_optimal_k") /\ ~IsNone(cluster_data)) =>
        (ret.status = "error" <=> (LastMaxK < KMin \/ LastMaxK > Len(Rows)))

(***************************************************************************)
(* C11: whenever a stage of the clustering pipeline has failed, no results *)
(* file exists; a results file, and the table the pipeline returns, hold   *)
(* every startup of the input with a cluster id; and at no moment does the *)
(* table of the object carry cluster ids for only some of its rows.        *)
(***************************************************************************)
ResultsFile == files.startup_clusters
FullyAssigned(table) ==
    /\ ~IsNone(table.cluster)
    /\ DOMAIN table.cluster = DOMAIN table.rows
    /\ \A i \in DOMAIN table.rows : table.cluster[i] \in Nat
    /\ {table.rows[i].startup_name : i \in DOMAIN table.rows} = InputNames

C11_NoPartialOutput ==
    /\ ret.status = "error" => IsNone(ResultsFile)
    /\ ~IsNone(ResultsFile) => FullyAssigned(Get(ResultsFile))
    /\ Returned(Stages[Len(Stages)]) => FullyAssigned(Get(cluster_data))
    /\ ~IsNone(cluster_data) =>
          IsNone(Get(cluster_data).cluster) \/ FullyAssigned(Get(cluster_data))

\* ten startups were all assigned, then the plot could not be saved: the
\* pipeline stopped and there is no results file
C11_Witness ==
    /\ Failed("visualize_clusters")
    /\ Len(Rows) = DefaultMaxK
    /\ FullyAssigned(Get(cluster_data))
    /\ Cardinality({Assignment[i] : i \in DOMAIN Assignment}) >= 2
    /\ IsNone(ResultsFile)

(***************************************************************************)
(* C12: after prepare_features every startup has years_active >= 1 and a   *)
(* finite funding_per_year: the quotient total_funding / years_active has  *)
(* a non-zero divisor.                                                     *)
(***************************************************************************)
C12_YearsActivePositive ==
    Returned("prepare_features") =>
        \A i \in DOMAIN Rows :
            /\ Rows[i].years_active >= 1
            /\ Rows[i].funding_per_year.den # 0

\* a startup whose two rounds fall in the same year: years_active is 1
C12_Witness ==
    /\ Returned("prepare_features")
    /\ \E i \in DOMAIN Rows :
          /\ Rows[i].num_funding_rounds = 2
          /\ Rows[i].year_min = Rows[i].year_max
          /\ Rows[i].years_active = 1

(***************************************************************************)
(* C13: for every startup, total_funding is the sum of the amounts of its  *)
(* records, num_funding_rounds is the number of its records, years_active  *)
(* is (latest year - earliest year) + 1 over its records, and              *)
(* funding_per_year is total_funding / years_active.                       *)
(***************************************************************************)
\* the positions of the records of a startup in the input
RecordsOf(name) == {i \in DOMAIN df : df[i].startup_name = name}
YearsOf(name) == {df[i].year : i \in RecordsOf(name)}

RECURSIVE AmountOver(_)
AmountOver(positions) ==
    IF positions = {} THEN 0
    ELSE LET i == CHOOSE p \in positions : TRUE
         IN  df[i].funding_amount_usd + AmountOver(positions \ {i})

C13_FeatureFormulas ==
    Returned("prepare_features") =>
        \A i \in DOMAIN Rows :
            LET row == Rows[i]
                name == row.startup_name
            IN  /\ row.total_funding = AmountOver(RecordsOf(name))
                /\ row.num_funding_rounds = Cardinality(RecordsOf(name))
                /\ row.years_active = Max(YearsOf(name)) - Min(YearsOf(name)) + 1
                /\ row.funding_per_year.den # 0
                /\ row.funding_per_year.num * row.years_active
                      = row.total_funding * row.funding_per_year.den

\* the spec's example in units of one million: amounts 1 and 3 in 2019 and
\* 2021 give total 4, 2 rounds, 3 years active and 4/3 per year
C13_Witness ==
    /\ Returned("prepare_features")
    /\ \E name \in InputNames, i \in DOMAIN Rows :
          /\ {<<df[p].funding_amount_usd, df[p].year>> : p \in RecordsOf(name)}
                = {<<1, 2019>>, <<3, 2021>>}
          /\ Cardinality(RecordsOf(name)) = 2
          /\ Rows[i].startup_name = name
          /\ Rows[i].total_funding = 4
          /\ Rows[i].num_funding_rounds = 2
          /\ Rows[i].years_active = 3
          /\ Rows[i].funding_per_year = [num |-> 4, den |-> 3]

(***************************************************************************)
(* C14: for every startup, industry_first and city_first are the industry  *)
(* and city of its first record in input order, however the records of     *)
(* different startups are interleaved.                                     *)
(***************************************************************************)
FirstRecordOf(name) == df[Min(RecordsOf(name))]

C14_FirstInInputOrder ==
    Returned("prepare_features") =>
        \A i \in DOMAIN Rows :
            /\ Rows[i].industry_first = FirstRecordOf(Rows[i].startup_name).industry
            /\ Rows[i].city_first = FirstRecordOf(Rows[i].startup_name).city

\* records A, B, A: A's later record and B's record carry another sector
\* than A's first record, and A's row has the sector of its first record
C14_Witness ==
    /\ Returned("prepare_features")
    /\ Len(df) = 3
    /\ df[1].startup_name = df[3].startup_name
    /\ df[2].startup_name # df[1].startup_name
    /\ df[2].industry # df[1].industry
    /\ df[3].industry # df[1].industry
    /\ \E i \in DOMAIN Rows :
          /\ Rows[i].startup_name = df[1].startup_name
          /\ Rows[i].industry_first = df[1].industry
          /\ Rows[i].city_first = df[1].city

Call == Get(engine)
EngineReturned == ~IsNone(engine) /\ Call.status = "returned"
Result == Get(Call.result)

RowDistance2(M, i, j) ==
    (M[i][1] - M[j][1]) * (M[i][1] - M[j][1]) + (M[i][2] - M[j][2]) * (M[i][2] - M[j][2])

\* rows i and j are closer to each other than any other two rows
ClosestPair(M, i, j) ==
    /\ i # j
    /\ \A a, b \in DOMAIN M :
          (a # b /\ {a, b} # {i, j}) => RowDistance2(M, i, j) < RowDistance2(M, a, b)

SingleRestartOfThree ==
    EngineReturned /\ Len(Call.matrix) = 3 /\ Call.k = 2 /\ Call.restarts = 1

C16_AsClaimed ==
    SingleRestartOfThree =>
        \A i, j \in DOMAIN Call.matrix :
            ClosestPair(Call.matrix, i, j) => Result.assignments[i] = Result.assignments[j]

(***************************************************************************)
(* C16 (amended): with 3 rows, k = 2 and a single restart, the two rows    *)
(* that are closest to each other end in the same cluster unless the seed  *)
(* selects exactly these two rows as the initial centroids.                *)
(***************************************************************************)
InitialCentroids(r) == {Call.inits[r][c] : c \in DOMAIN Call.inits[r]}

C16_ClosestPairTogether ==
    SingleRestartOfThree =>
        \A i, j \in DOMAIN Call.matrix :
            (ClosestPair(Call.matrix, i, j) /\ InitialCentroids(1) # {i, j})
                => Result.assignments[i] = Result.assignments[j]

\* the restart started from one row of the closest pair and the third row,
\* and the closest pair shares a cluster that the third row is not in
C16_Witness ==
    /\ SingleRestartOfThree
    /\ \E i, j, o \in DOMAIN Call.matrix :
          /\ ClosestPair(Call.matrix, i, j)
          /\ o \notin {i, j}
          /\ InitialCentroids(1) = {i, o}
          /\ Result.assignments[i] = Result.assignments[j]
          /\ Result.assignments[o] # Result.assignments[i]

(***************************************************************************)
(* C17: the result of a training call is the outcome of the restart with   *)
(* the lowest inertia, and of the earliest such restart when several       *)
(* restarts have that inertia.                                             *)
(***************************************************************************)
C17_LowestInertiaEarliest ==
    EngineReturned =>
        /\ Call.kept \in 1..Call.restarts
        /\ Result = Call.runs[Call.kept]
        /\ \A r \in 1..Call.restarts : Result.inertia <= Call.runs[r].inertia
        /\ \A r \in 1..(Call.kept - 1) : Result.inertia < Call.runs[r].inertia

\* two restarts reached different assignments of the same inertia, which no
\* restart undercut: the result is the outcome of the first of them
C17_Witness ==
    /\ EngineReturned
    /\ Call.restarts >= 2
    /\ Call.runs[1].inertia = Call.runs[2].inertia
    /\ Call.runs[1].assignments # Call.runs[2].assignments
    /\ Call.kept = 1
    /\ Result.assignments = Call.runs[1].assignments

(***************************************************************************)
(* C18: a K selection over a range kMin <= kMax <= number of startups      *)
(* trains exactly once for every k from kMin to kMax, in increasing order: *)
(* the j-th training (from 0) is the one for k = kMin + j.  When the call  *)
(* returns, the inertia curve has kMax - kMin + 1 entries, entry j being   *)
(* the inertia of the j-th training, and the rate list kMax - kMin.        *)
(***************************************************************************)
ValidRange ==
    /\ Called("find_optimal_k")
    /\ ~IsNone(cluster_data)
    /\ KMin <= LastMaxK /\ LastMaxK <= Len(Rows)

C18_OneFitPerK ==
    ValidRange =>
        /\ Len(fitLog) = LastMaxK - KMin + 1
        /\ \A j \in 0..(LastMaxK - KMin) : fitLog[j + 1] = KMin + j
        /\ Returned("find_optimal_k") =>
              /\ Size(LastInertias) = Len(fitLog)
              /\ \A j \in DOMAIN LastInertias : LastInertias[j] = inertiaOf[fitLog[j + 1]]
              /\ RateCount(LastInertias) = LastMaxK - KMin

\* K = 2..5 were trained on six startups and a K was returned: four curve
\* entries of different inertia, three rates
C18_Witness ==
    /\ ValidRange
    /\ Returned("find_optimal_k")
    /\ Len(Rows) = 6
    /\ fitLog = <<2, 3, 4, 5>>
    /\ Size(LastInertias) = 4
    /\ RateCount(LastInertias) = 3
    /\ \A j \in 0..2 : LastInertias[j] > LastInertias[j + 1]

(***************************************************************************)
(* C19: in every operation that scales features (find_optimal_k,           *)
(* train_kmeans, visualize_clusters), each missing or non-finite feature   *)
(* value is replaced by 0 before scaling, so the scaler never receives NaN *)
(* or Inf.  ScalerInput is the matrix the last operation handed to the     *)
(* scaler: find_optimal_k and train_kmeans hand X over once the table      *)
(* exists, visualize_clusters once the scaler is also fitted.              *)
(***************************************************************************)
ScalerCalled ==
    /\ ~IsNone(cluster_data)
    /\ \/ ret.op \in {"find_optimal_k", "train_kmeans"} /\ ret.exc # "TypeError"
       \/ ret.op = "visualize_clusters" /\ ret.exc \notin {"TypeError", "NotFittedError"}
ScalerInput == FeatureMatrix(Get(cluster_data))

C19_ScalerInputFinite == ScalerCalled => AllFinite(ScalerInput)

(***************************************************************************)
(* C20: a feature column whose value is identical in every row is          *)
(* transformed by standardization to 0 in every row (never NaN and never a *)
(* division error).  X_scaled is what fit_transform returned for the       *)
(* matrix the scaler was last fitted on.                                   *)
(***************************************************************************)
X_scaled == FitTransform(Get(scaler))
ConstantColumn(X, j) == \A i, other \in DOMAIN X : X[i][j] = X[other][j]
IsZero(z) == z.num = 0 /\ z.den # 0

C20_ConstantColumnIsZero ==
    ~IsNone(scaler) =>
        \A i \in DOMAIN Get(scaler) : \A j \in DOMAIN Get(scaler)[i] :
            ConstantColumn(Get(scaler), j) => IsZero(X_scaled[i][j])

\* find_optimal_k scaled three startups that differ in total funding only:
\* the other columns are constant and became 0, the funding column did not
C20_Witness ==
    /\ ret.op = "find_optimal_k"
    /\ ~IsNone(scaler)
    /\ Len(Get(scaler)) = 3
    /\ ~ConstantColumn(Get(scaler), 1)
    /\ \E i \in DOMAIN X_scaled : X_scaled[i][1].sign = -1 /\ X_scaled[i][1].num > 0
    /\ \A j \in 2..4 : ConstantColumn(Get(scaler), j)
    /\ \A i \in DOMAIN X_scaled : \A j \in 2..4 : IsZero(X_scaled[i][j])

(***************************************************************************)
(* C25: the K returned by find_optimal_k(max_k) is always one of the       *)
(* cluster counts it evaluated, i.e. 2 <= K <= max_k, for every max_k and  *)
(* every inertia curve.                                                    *)
(***************************************************************************)
C25_ReturnedKWasEvaluated ==
    Returned("find_optimal_k") =>
        /\ KMin <= Get(ret.value)
        /\ Get(ret.value) <= Get(ret.arg)

(***************************************************************************)
(* C23: after analyze_clusters, every entity carries exactly one label, it *)
(* is one of the five defined labels, and all entities with the same       *)
(* cluster id carry the same label; two different clusters may carry the   *)
(* same label.                                                             *)
(***************************************************************************)
DefinedLabels ==
    {"High-Growth Unicorns", "Large Single-Round Players",
     "Mid-Tier Growth Startups", "Frequent Small-Round Startups",
     "Early-Stage Ventures"}
LabelColumn == Get(cluster_data).cluster_name

C23_OneDefinedLabelPerCluster ==
    Returned("analyze_clusters") =>
        /\ DOMAIN LabelColumn = DOMAIN Rows
        /\ \A i \in DOMAIN Rows : LabelColumn[i] \in DefinedLabels
        /\ \A i, j \in DOMAIN Rows :
              Assignment[i] = Assignment[j] => LabelColumn[i] = LabelColumn[j]

\* three startups in two clusters of two and one, both clusters labelled
\* alike
C23_Witness ==
    /\ Returned("analyze_clusters")
    /\ Len(Rows) = 3
    /\ \E i, j, other \in DOMAIN Rows :
          /\ i # j
          /\ Assignment[i] = Assignment[j]
          /\ Assignment[other] # Assignment[i]
          /\ LabelColumn[other] = LabelColumn[i]

(***************************************************************************)
(* C22: train_kmeans called without a cluster count uses the K stored by   *)
(* the last find_optimal_k, or 4 when no K has been selected yet; a        *)
(* cluster count passed explicitly is always the one used and leaves the   *)
(* stored optimal K unchanged.  The count used is the n_clusters of the    *)
(* KMeans object the call constructed (line 169).                          *)
(***************************************************************************)
C22_CountUsedByTraining ==
    [][(ret'.op = "train_kmeans" /\ ~IsNone(cluster_data)) =>
          /\ Get(kmeans').n_clusters =
                IF ~IsNone(ret'.arg) THEN Get(ret'.arg)
                ELSE IF IsNone(optimal_k) THEN 4
                ELSE Get(optimal_k)
          /\ optimal_k' = optimal_k]_vars

\* find_optimal_k selected K = 3, and the training called without a count
\* that followed gave three clusters
C22_Witness ==
    /\ Returned("train_kmeans")
    /\ IsNone(ret.arg)
    /\ optimal_k = Some(3)
    /\ Get(kmeans).n_clusters = 3
    /\ {Assignment[i] : i \in DOMAIN Assignment} = {0, 1, 2}

(***************************************************************************)
(* C26: whenever visualize_clusters runs, the scaling parameters it        *)
(* applies are those fitted on exactly the feature rows that the current   *)
(* cluster assignment was trained on, for any sequence of                  *)
(* prepare_features, find_optimal_k and train_kmeans calls that precedes   *)
(* it.  The assignment is the cluster column of the table, set by          *)
(* train_kmeans from the rows of that table; prepare_features replaces the *)
(* table by one without assignment.                                        *)
(***************************************************************************)
ScalerApplied ==
    /\ ret.op = "visualize_clusters"
    /\ ret.exc \notin {"TypeError", "NotFittedError"}
HasAssignment == ~IsNone(cluster_data) /\ ~IsNone(Get(cluster_data).cluster)
TrainedOn == FeatureMatrix(Get(cluster_data))

C26_ScalerFittedOnTrainedRows ==
    (ScalerApplied /\ HasAssignment) => Get(scaler) = TrainedOn

\* the figure of two startups in two clusters was written, after the
\* scaler had been fitted by train_kmeans and by find_optimal_k
C26_Witness ==
    /\ Returned("visualize_clusters")
    /\ HasAssignment
    /\ Len(TrainedOn) = 2
    /\ {Assignment[i] : i \in DOMAIN Assignment} = {0, 1}
    /\ KMin \in DOMAIN inertiaOf
    /\ Get(scaler) = TrainedOn
    /\ ~IsNone(files.cluster_visualization)

(***************************************************************************)
(* C24: each training restart terminates: the assign/recompute loop stops  *)
(* once assignments no longer change or the maximum iteration bound is     *)
(* reached, so every training call eventually returns a result or an       *)
(* error.                                                                  *)
(***************************************************************************)
Training == Get(engine)
TrainingEnded == Training.status \in {"returned", "InvalidClusterCountError"}
StoppedAsSpecified(run) ==
    /\ run.iterations <= MaxIterations
    /\ run.converged \/ run.iterations = MaxIterations

C24_TrainingTerminates ==
    /\ [](\A r \in DOMAIN Training.runs : StoppedAsSpecified(Training.runs[r]))
    /\ <>TrainingEnded

\* a call of two restarts returned: one restart stopped because its
\* assignments no longer changed, the other at the iteration bound while
\* they still changed
C24_Witness ==
    /\ Training.status = "returned"
    /\ Training.restarts = 2
    /\ Len(Training.runs) = 2
    /\ \E r, o \in DOMAIN Training.runs :
          /\ Training.runs[r].converged
          /\ ~Training.runs[o].converged
          /\ Training.runs[o].iterations = MaxIterations


(***************************************************************************)
(* SpecAmount: a DataLoader whose _clean_amount is called on amounts made  *)
(* of a currency symbol, a numeric part, a blank or none, and a magnitude  *)
(* in letter or word form, and on a few other cells.                       *)
(***************************************************************************)
AmountSymbols == {<<>>, <<"$">>, <<"₹">>}
NumericParts ==
    { [text |-> <<"5">>, value |-> Num(5, 0)],
      [text |-> <<"1", "2">>, value |-> Num(12, 0)],
      [text |-> <<"1", ",", "5", "0", "0">>, value |-> Num(1500, 0)],
      [text |-> <<"1", ".", "5">>, value |-> Num(15, -1)] }
Gaps == {<<>>, <<" ">>}
Magnitudes ==
    { [suffix |-> <<"B">>, exponent |-> 9], [suffix |-> <<"B", "I", "L", "L", "I", "O", "N">>, exponent |-> 9],
      [suffix |-> <<"M">>, exponent |-> 6], [suffix |-> <<"M", "I", "L", "L", "I", "O", "N">>, exponent |-> 6],
      [suffix |-> <<"K">>, exponent |-> 3], [suffix |-> <<"T", "H", "O", "U", "S", "A", "N", "D">>, exponent |-> 3],
      [suffix |-> <<"C", "R">>, exponent |-> 7], [suffix |-> <<"C", "R", "O", "R", "E">>, exponent |-> 7],
      [suffix |-> <<"L">>, exponent |-> 5], [suffix |-> <<"L", "A", "K", "H">>, exponent |-> 5] }
AmountText(symbol, part, gap, magnitude) ==
    Str(symbol \o part.text \o gap \o magnitude.suffix)
AmountCells ==
    { AmountText(symbol, part, gap, magnitude) :
          symbol \in AmountSymbols, part \in NumericParts, gap \in Gaps,
          magnitude \in Magnitudes }
    \cup { Missing, Num(7, 0), Str(<<"5">>), Str(<<" ", "$", "1", ",", "5", "0", "0", " ">>), Str(<<"5", "m">>), Str(<<"5", " ", "c", "r", "o", "r", "e">>),
           Str(<<"a", "b", "c">>), Str(<<>>) }

InitAmount ==
    /\ loader = Some(DataLoader(<<"s", "t", "a", "r", "t", "u", "p", "s", ".", "c", "s", "v">>))
    /\ main = None /\ engine = None
    /\ df = <<>> /\ cluster_data = None /\ optimal_k = None /\ scaler = None
    /\ kmeans = None /\ inertiaOf = <<>> /\ labelsOf = <<>> /\ fitLog = <<>>
    /\ ret = NoCall /\ files = NoFiles
NextAmount == \E amount \in AmountCells : clean_amount(amount)
SpecAmount == InitAmount /\ [][NextAmount]_vars

\* C28: _clean_amount turns an amount text made of an optional currency symbol,
\* a numeric part (commas allowed) and a magnitude suffix, in letter form
\* (B, M, K, CR, L) or word form (BILLION, MILLION, THOUSAND, CRORE, LAKH),
\* into the numeric part times 1e9, 1e6, 1e3, 1e7 or 1e5 respectively.
C28_SuffixScalesNumericPart ==
    Returned("_clean_amount") =>
        \A symbol \in AmountSymbols, part \in NumericParts, gap \in Gaps,
           magnitude \in Magnitudes :
            ret.arg = AmountText(symbol, part, gap, magnitude)
                => ret.value = Times(part.value, magnitude.exponent)


(***************************************************************************)
(* SpecColumns: a DataLoader that loads a table of at most MaxColumns      *)
(* columns with pairwise distinct names (read_csv never yields two equal   *)
(* names), once, and standardizes the names.                               *)
(***************************************************************************)
MaxColumns == 3
ColumnNames ==
    { <<"S", "t", "a", "r", "t", "u", "p", " ", "N", "a", "m", "e">>, <<"C", "o", "m", "p", "a", "n", "y">>, <<"s", "t", "a", "r", "t", "u", "p", "_", "n", "a", "m", "e">>, <<"S", "e", "c", "t", "o", "r">>, <<"i", "n", "d", "u", "s", "t", "r", "y">>, <<" ", "C", "i", "t", "y">>,
      <<"C", "i", "t", "y", " ", "L", "o", "c", "a", "t", "i", "o", "n">>, <<"A", "m", "o", "u", "n", "t", " ", "i", "n", " ", "U", "S", "D">>, <<"f", "u", "n", "d", "i", "n", "g", "_", "a", "m", "o", "u", "n", "t", "_", "u", "s", "d">>, <<"S", "t", "a", "g", "e">>,
      <<"I", "n", "v", "e", "s", "t", "o", "r", "s">>, <<"D", "a", "t", "e">>, <<"d", "a", "t", "e">>, <<"R", "e", "m", "a", "r", "k", "s">> }
Distinct(names) ==
    \A i, j \in DOMAIN names : i # j => names[i] # names[j]
RECURSIVE Headers(_)
Headers(n) ==
    IF n = 0 THEN {<<>>}
    ELSE Headers(n - 1) \cup
         { Append(names, col) : names \in {h \in Headers(n - 1) : Len(h) = n - 1},
                                col \in ColumnNames }
ColumnTables == {Frame(names, <<>>) : names \in {h \in Headers(MaxColumns) : Distinct(h)}}
Paths == {<<"s", "t", "a", "r", "t", "u", "p", "s", ".", "c", "s", "v">>, <<"s", "t", "a", "r", "t", "u", "p", "s", ".", "x", "l", "s", "x">>, <<"s", "t", "a", "r", "t", "u", "p", "s", ".", "j", "s", "o", "n">>}

InitColumns ==
    /\ \E filepath \in Paths : loader = Some(DataLoader(filepath))
    /\ main = None /\ engine = None
    /\ df = <<>> /\ cluster_data = None /\ optimal_k = None /\ scaler = None
    /\ kmeans = None /\ inertiaOf = <<>> /\ labelsOf = <<>> /\ fitLog = <<>>
    /\ ret = NoCall /\ files = NoFiles
Loaded == ~IsNone(loader) /\ ~IsNone(Get(loader).df)
NextColumns ==
    \/ /\ ~Loaded
       /\ \E content \in {None} \cup {Some(table) : table \in ColumnTables} :
              load_data(content)
    \/ standardize_columns
SpecColumns == InitColumns /\ [][NextColumns]_vars

Columns(object) == Get(Get(object).df).columns

\* C29: a call of standardize_columns on a table whose column names are
\* pairwise distinct leaves a table whose column names are pairwise distinct,
\* so each standard name is carried by at most one column.
C29_NamesStayDistinct ==
    [][(/\ Loaded
        /\ Distinct(Columns(loader))
        /\ ret'.op = "standardize_columns" /\ ret'.status = "ok")
            => Distinct(Columns(loader'))]_vars


(***************************************************************************)
(* SpecClean: a DataLoader that loads, once, a table of at most MaxRows    *)
(* rows over startup_name, funding_amount_usd and date (or fewer columns)  *)
(* and cleans it.                                                          *)
(***************************************************************************)
MaxRows == 2
NameCells == {Str(<<"a", "c", "m", "e">>), Str(<<" ", "A", "c", "m", "e", " ">>), Str(<<"o", "l", "a", " ", "c", "a", "b", "s">>), Missing}
RawAmountCells == {Str(<<"5", "K">>), Num(5, 3), Missing}
DateCells == {Str(<<"2", "0", "2", "0", "-", "0", "2", "-", "2", "9">>), Str(<<"2", "0", "2", "1", "-", "0", "2", "-", "2", "9">>), Missing}
RECURSIVE RowLists(_, _)
RowLists(rowValues, n) ==
    IF n = 0 THEN {<<>>}
    ELSE RowLists(rowValues, n - 1) \cup
         { Append(rows, row) :
               rows \in {l \in RowLists(rowValues, n - 1) : Len(l) = n - 1},
               row \in rowValues }
CleanTables ==
    { Frame(<<<<"s", "t", "a", "r", "t", "u", "p", "_", "n", "a", "m", "e">>, <<"f", "u", "n", "d", "i", "n", "g", "_", "a", "m", "o", "u", "n", "t", "_", "u", "s", "d">>, <<"d", "a", "t", "e">>>>, rows) :
          rows \in RowLists({<<name, amount, date>> :
                      name \in NameCells, amount \in RawAmountCells, date \in DateCells},
                  MaxRows) }
    \cup { Frame(<<<<"s", "t", "a", "r", "t", "u", "p", "_", "n", "a", "m", "e">>, <<"c", "i", "t", "y">>>>, rows) :
          rows \in RowLists({<<name, city>> :
                      name \in NameCells, city \in {Str(<<"p", "u", "n", "e">>), Missing}}, MaxRows) }
    \cup { Frame(<<<<"f", "u", "n", "d", "i", "n", "g", "_", "a", "m", "o", "u", "n", "t", "_", "u", "s", "d">>>>, rows) :
          rows \in RowLists({<<amount>> : amount \in RawAmountCells}, MaxRows) }

InitClean ==
    /\ loader = Some(DataLoader(<<"s", "t", "a", "r", "t", "u", "p", "s", ".", "c", "s", "v">>))
    /\ main = None /\ engine = None
    /\ df = <<>> /\ cluster_data = None /\ optimal_k = None /\ scaler = None
    /\ kmeans = None /\ inertiaOf = <<>> /\ labelsOf = <<>> /\ fitLog = <<>>
    /\ ret = NoCall /\ files = NoFiles
NextClean ==
    \/ /\ ~Loaded
       /\ \E content \in {None} \cup {Some(table) : table \in CleanTables} :
              load_data(content)
    \/ standardize_columns
    \/ \E inplace \in BOOLEAN : clean_data(inplace)
SpecClean == InitClean /\ [][NextClean]_vars

CleanedRows == Get(Get(loader).df).rows

\* C27: after clean_data has completed, the cleaned table holds no two
\* identical rows, rows made identical by the trimming and title-casing of
\* the text fields included.
C27_NoIdenticalRows ==
    Returned("clean_data") => Distinct(CleanedRows)


(***************************************************************************)
(* main() (main.py): the file check, then the three steps inside the try   *)
(* block, the completion report and the except handler.  The run keeps the *)
(* data folder main finds (None when there is no ../data, else its listing *)
(* in os.listdir order, each entry a regular file with its content),       *)
(* main's locals DATA_FILE and eda, its position and the banners printed.  *)
(***************************************************************************)
DataDir == <<".", ".", "/", "d", "a", "t", "a", "/">>
ConfiguredFile == DataDir \o <<"i", "n", "d", "i", "a", "n", "_", "s", "t", "a", "r", "t", "u", "p", "s", "_", "f", "u", "n", "d", "i", "n", "g", ".", "c", "s", "v">>
Entry(name, content) == [name |-> name, content |-> content]
Run(data_dir) ==
    [data_dir |-> data_dir, DATA_FILE |-> ConfiguredFile, position |-> "check",
     eda |-> None, log |-> <<>>]

\* os.path.exists(path) for a path of a file in ../data
Exists(run, path) ==
    /\ ~IsNone(run.data_dir)
    /\ \E i \in DOMAIN Get(run.data_dir) : DataDir \o Get(run.data_dir)[i].name = path
FileContent(run, path) ==
    IF Exists(run, path)
    THEN LET listing == Get(run.data_dir)
         IN  Some(listing[CHOOSE i \in DOMAIN listing : DataDir \o listing[i].name = path].content)
    ELSE None

Names(listing) == [i \in DOMAIN listing |-> listing[i].name]

\* faulty variant: every entry of the folder is taken for a CSV file
AllFiles(listing) == Names(listing)

\* line 46: the entries of the folder whose name ends in '.csv'
CsvFiles(listing) == SelectSeq(Names(listing), LAMBDA f : EndsWith(f, <<".", "c", "s", "v">>))

MainUnchanged ==
    UNCHANGED <<df, cluster_data, optimal_k, scaler, kmeans, inertiaOf, labelsOf,
                fitLog, ret, files, engine, loader>>

At(position) == ~IsNone(main) /\ Get(main).position = position
Goes(run, position, banner) ==
    [run EXCEPT !.position = position, !.log = Append(run.log, banner)]

\* lines 30-60
check_data_file ==
    /\ At("check")
    /\ LET run == Get(main)
       IN  IF Exists(run, run.DATA_FILE)
           THEN main' = Some([run EXCEPT !.position = "step1"])
           ELSE IF IsNone(run.data_dir)
           THEN main' = Some(Goes(run, "returned", "EXIT"))
           ELSE LET csv_files == CsvFiles(Get(run.data_dir))
                IN  IF csv_files # <<>>
                    THEN main' = Some([run EXCEPT !.DATA_FILE = DataDir \o csv_files[1],
                                                  !.position = "step1"])
                    ELSE main' = Some(Goes(run, "returned", "EXIT"))
    /\ MainUnchanged

\* faulty variant: the call has ended, by a return or by an exception
Ended(op) == ret.op = op

\* inside the try block the statement after a call is reached only when the
\* call has returned
Completed(op) == ret.op = op /\ ret.status = "ok"

LoaderCalls ==
    <<"load_data", "standardize_columns", "clean_data", "get_summary_statistics",
      "save_cleaned_data">>
AtCall(op) ==
    LET i == CHOOSE j \in DOMAIN LoaderCalls : LoaderCalls[j] = op
    IN  /\ At("step1") /\ ~IsNone(loader)
        /\ IF i = 1 THEN ret = NoCall ELSE Completed(LoaderCalls[i - 1])

\* lines 66-70: the banner and loader = DataLoader(DATA_FILE)
step1 ==
    /\ At("step1") /\ IsNone(loader)
    /\ loader' = Some(DataLoader(Get(main).DATA_FILE))
    /\ main' = Some(Goes(Get(main), "step1", "STEP 1"))
    /\ UNCHANGED <<df, cluster_data, optimal_k, scaler, kmeans, inertiaOf, labelsOf,
                   fitLog, ret, files, engine>>

\* lines 80-84: the banner and eda = StartupEDA(df), df being loader.df
step2 ==
    /\ At("step1") /\ Completed("save_cleaned_data")
    /\ main' = Some([Goes(Get(main), "step2", "STEP 2")
                        EXCEPT !.eda = Some(StartupEDA(Get(Get(loader).df)))])
    /\ MainUnchanged

\* lines 90-94: the banner and clustering = StartupClustering(df)
step3 ==
    /\ At("step2") /\ Completed("generate_comprehensive_report")
    /\ main' = Some(Goes(Get(main), "step3", "STEP 3"))
    /\ df' = FrameOf(Get(Get(loader).df))
    /\ ret' = NoCall
    /\ UNCHANGED <<cluster_data, optimal_k, scaler, kmeans, inertiaOf, labelsOf,
                   fitLog, files, engine, loader>>

\* lines 100-137
completion ==
    /\ At("step3") /\ Completed("save_cluster_results")
    /\ main' = Some(Goes(Get(main), "completed", "COMPLETED"))
    /\ MainUnchanged

\* lines 139-143: an exception raised anywhere in the try block
except_handler ==
    /\ At("step1") \/ At("step2") \/ At("step3")
    /\ ret.status = "error"
    /\ main' = Some(Goes(Get(main), "failed", "ERROR"))
    /\ MainUnchanged

(***************************************************************************)
(* SpecMain: runs of main() over data folders that are absent, empty, hold *)
(* no CSV file, hold the configured file, or hold other CSV files; the     *)
(* files are written like generate_sample_data.py writes them.             *)
(***************************************************************************)
StandardColumns ==
    << <<"s", "t", "a", "r", "t", "u", "p", "_", "n", "a", "m", "e">>, <<"i", "n", "d", "u", "s", "t", "r", "y">>, <<"c", "i", "t", "y">>, <<"s", "t", "a", "t", "e">>, <<"f", "u", "n", "d", "i", "n", "g", "_", "a", "m", "o", "u", "n", "t", "_", "u", "s", "d">>,
       <<"f", "u", "n", "d", "i", "n", "g", "_", "r", "o", "u", "n", "d">>, <<"i", "n", "v", "e", "s", "t", "o", "r", "s">>, <<"d", "a", "t", "e">> >>
RawTable(frame) ==
    Frame(StandardColumns,
          [r \in DOMAIN frame |->
              << Str(Lower(Chars(frame[r].startup_name))),
                 Str(Chars(frame[r].industry)),
                 Str(Chars(frame[r].city)),
                 Str(<<"M", "a", "h", "a", "r", "a", "s", "h", "t", "r", "a">>),
                 Num(frame[r].funding_amount_usd, 0),
                 Str(<<"S", "e", "e", "d">>),
                 Str(<<"S", "e", "q", "u", "o", "i", "a", " ", "C", "a", "p", "i", "t", "a", "l", ",", " ", "A", "c", "c", "e", "l">>),
                 Str(Numeral(frame[r].year) \o <<"-", "0", "1", "-", "1", "5">>) >>])
Drop(seq, c) == [i \in 1..(Len(seq) - 1) |-> IF i < c THEN seq[i] ELSE seq[i + 1]]
Without(table, name) ==
    LET c == ColumnIndex(table, name)
    IN  Frame(Drop(table.columns, c),
              [r \in DOMAIN table.rows |-> Drop(table.rows[r], c)])

MainFrames ==
    { PipelineFrame(<<1, 2>>, DefaultMaxK), PipelineFrame(<<1, 2>>, MaxSmall) }
MainTables ==
    {RawTable(frame) : frame \in MainFrames}
        \cup {Without(RawTable(frame), <<"i", "n", "v", "e", "s", "t", "o", "r", "s">>) : frame \in MainFrames}
Notes == Entry(<<"n", "o", "t", "e", "s", ".", "t", "x", "t">>, Frame(<<>>, <<>>))
DataDirs ==
    {None, Some(<<>>), Some(<<Notes>>)}
        \cup {Some(<<Entry(<<"i", "n", "d", "i", "a", "n", "_", "s", "t", "a", "r", "t", "u", "p", "s", "_", "f", "u", "n", "d", "i", "n", "g", ".", "c", "s", "v">>, table)>>) : table \in MainTables}
        \cup {Some(<<Notes, Entry(<<"s", "t", "a", "r", "t", "u", "p", "s", ".", "c", "s", "v">>, table),
                     Entry(<<"z", "o", "m", "a", "t", "o", ".", "c", "s", "v">>, Frame(StandardColumns, <<>>))>>) :
                  table \in MainTables}

InitMain ==
    /\ \E data_dir \in DataDirs : main = Some(Run(data_dir))
    /\ loader = None /\ engine = None
    /\ df = <<>> /\ cluster_data = None /\ optimal_k = None /\ scaler = None
    /\ kmeans = None /\ inertiaOf = <<>> /\ labelsOf = <<>> /\ fitLog = <<>>
    /\ ret = NoCall /\ files = NoFiles
NextMain ==
    \/ check_data_file
    \/ step1
    \/ AtCall("load_data") /\ load_data(FileContent(Get(main), Get(loader).filepath))
    \/ AtCall("standardize_columns") /\ standardize_columns
    \/ AtCall("clean_data") /\ \E inplace \in BOOLEAN : clean_data(inplace)
    \/ AtCall("get_summary_statistics") /\ get_summary_statistics
    \/ AtCall("save_cleaned_data") /\ \E writable \in BOOLEAN : save_cleaned_data(writable)
    \/ step2
    \/ /\ At("step2") /\ Completed("save_cleaned_data")
       /\ \E failing \in 0..Len(Analyses) : generate_comprehensive_report(failing)
    \/ step3
    \/ At("step3") /\ AtStage("prepare_features") /\ prepare_features
    \/ At("step3") /\ AtStage("find_optimal_k") /\ find_optimal_k(DefaultMaxK)
    \/ At("step3") /\ AtStage("train_kmeans") /\ train_kmeans(None)
    \/ At("step3") /\ AtStage("analyze_clusters") /\ analyze_clusters
    \/ At("step3") /\ AtStage("visualize_clusters") /\ visualize_clusters
    \/ At("step3") /\ AtStage("save_cluster_results") /\ save_cluster_results
    \/ completion
    \/ except_handler
SpecMain == InitMain /\ [][NextMain]_vars


(***************************************************************************)
(* C21: main runs loading and cleaning, then the exploratory analysis,     *)
(* then the clustering; a stage starts only after every earlier stage has  *)
(* completed without error, and the completion report is printed only      *)
(* after all three stages have completed.                                  *)
(***************************************************************************)
Banners == <<"STEP 1", "STEP 2", "STEP 3", "COMPLETED">>
Printed(banner) == \E i \in DOMAIN Get(main).log : Get(main).log[i] = banner
IsPrefix(s, t) == Len(s) <= Len(t) /\ s = SubSeq(t, 1, Len(s))

\* what each stage leaves behind once it has completed
LoadingCompleted ==
    /\ ~IsNone(loader) /\ ~IsNone(Get(loader).df)
    /\ files.cleaned_data = Get(loader).df
AnalysisCompleted ==
    files.figures = [i \in DOMAIN Analyses |-> Analyses[i].figure]
ClusteringCompleted ==
    ~IsNone(files.startup_clusters)

C21_StagesInOrder ==
    LET log == Get(main).log
    IN  /\ \/ log = <<"EXIT">>
           \/ IsPrefix(log, Banners)
           \/ log # <<>> /\ log[Len(log)] = "ERROR"
                  /\ IsPrefix(SubSeq(log, 1, Len(log) - 1), SubSeq(Banners, 1, 3))
        /\ ~IsNone(loader) => Printed("STEP 1")
        /\ (~IsNone(Get(main).eda) \/ files.figures # <<>>) => Printed("STEP 2")
        /\ (df # <<>> \/ ~IsNone(cluster_data)) => Printed("STEP 3")
        /\ Printed("STEP 2") => LoadingCompleted
        /\ Printed("STEP 3") => LoadingCompleted /\ AnalysisCompleted
        /\ Printed("COMPLETED") =>
              LoadingCompleted /\ AnalysisCompleted /\ ClusteringCompleted
        /\ Printed("ERROR") => ret.status = "error" /\ ~Printed("COMPLETED")

\* a run over ten startups that went through all three stages
C21_Witness ==
    /\ At("completed")
    /\ Get(main).log = Banners
    /\ LoadingCompleted /\ AnalysisCompleted /\ ClusteringCompleted
    /\ Len(Get(Get(loader).df).rows) > DefaultMaxK

(***************************************************************************)
(* C30: when the configured data file does not exist, main either goes on  *)
(* with the first CSV file of the data folder or returns with no stage run *)
(* and no output written; no stage starts without an existing input file.  *)
(***************************************************************************)
ConfiguredExists == Exists(Get(main), ConfiguredFile)
HasCsv(listing) == \E i \in DOMAIN listing : EndsWith(listing[i].name, <<".", "c", "s", "v">>)
FirstCsv(listing) ==
    listing[CHOOSE i \in DOMAIN listing :
                /\ EndsWith(listing[i].name, <<".", "c", "s", "v">>)
                /\ \A j \in 1..(i - 1) : ~EndsWith(listing[j].name, <<".", "c", "s", "v">>)].name
NothingRan ==
    /\ IsNone(loader) /\ IsNone(Get(main).eda)
    /\ df = <<>> /\ IsNone(cluster_data) /\ IsNone(kmeans)
    /\ ret = NoCall
    /\ files = NoFiles
    /\ Get(main).log = <<"EXIT">>

C30_MissingFileHandled ==
    LET run == Get(main)
    IN  (~ConfiguredExists /\ ~At("check")) =>
            IF ~IsNone(run.data_dir) /\ HasCsv(Get(run.data_dir))
            THEN /\ ~At("returned")
                 /\ run.DATA_FILE = DataDir \o FirstCsv(Get(run.data_dir))
                 /\ Exists(run, run.DATA_FILE)
                 /\ ~IsNone(loader) => Get(loader).filepath = run.DATA_FILE
            ELSE At("returned") /\ NothingRan

\* the folder holds notes.txt, then startups.csv: the run loaded startups.csv
C30_Witness ==
    /\ ~ConfiguredExists
    /\ Get(main).DATA_FILE = DataDir \o <<"s", "t", "a", "r", "t", "u", "p", "s", ".", "c", "s", "v">>
    /\ Get(Get(main).data_dir)[1].name = <<"n", "o", "t", "e", "s", ".", "t", "x", "t">>
    /\ Returned("load_data")
    /\ ~IsNone(Get(loader).df)

=============================================================================
